---- MODULE Spec2Model ----
(***************************************************************************)
(* A model of nano/geometry.h: the 2D value types point, size, rect, quad  *)
(* and transform, with the operations of transform (builders, composition, *)
(* translation, application) and the set algebra of rect.                  *)
(*                                                                         *)
(* transform<T> only exists for floating point T.  Every coefficient and   *)
(* coordinate of the model is a small integer; such values and the sums    *)
(* and products the operations form from them are exactly representable    *)
(* in float, so float arithmetic on them is integer arithmetic.  Equality  *)
(* of float points goes through fcompare, modelled with its epsilon.       *)
(* The rect operations are modelled for rect<int>.                         *)
(***************************************************************************)
EXTENDS Integers, Sequences, FiniteSets, TLC

VARIABLES
    tf,      \* the transform object under test ("this" of the transform calls)
    tcall,   \* the last transform call: its name, "this" before it, arguments, results
    rc,      \* the rect object under test ("this" of the rect calls)
    rcall,   \* the last rect call: its name, "this" before it, arguments, results
    store,   \* the storage of a rect<int>: one value per value_type slot
    scall,   \* the last mutator called on the stored rect, with its scalar arguments
    ft,      \* a foreign type: its member layout and scalar type
    ck,      \* the last is_constructible query on the foreign type
    cv,      \* a conversion in progress: foreign value, rect, value converted back
    rg,      \* the range object under test ("this" of the range calls)
    gcall,   \* the last range call: its name, "this" before it, arguments, results
    pcall,   \* the last comparison of two points, with the result of each operator
    qr,      \* the rect a quad was built from
    qd,      \* the quad built from qr
    qcall,   \* the last quad call: its name, the rect and the quad before it
    mg       \* a merge in progress: accumulator, rects merged and rects still to merge

vars == <<tf, tcall, rc, rcall, store, scall, ft, ck, cv, rg, gcall, pcall, qr, qd, qcall, mg>>

tvars == <<tf, tcall>>
rvars == <<rc, rcall>>
svars == <<store, scall>>
dvars == <<ft, ck>>
cvars == <<cv>>
gvars == <<rg, gcall>>
pvars == <<pcall>>
qvars == <<qr, qd, qcall>>
mvars == <<mg>>
nvars == <<gvars, pvars, qvars, mvars>>

---------------------------------------------------------------------------
(* Bounds of the input sets.                                               *)

MaxCoord == 1
MaxOrigin == 1
MaxDim == 2

\* 1 / std::numeric_limits<float>::epsilon()  (epsilon = 2^-23)
EpsInv == 8388608

Coords == (0 - MaxCoord)..MaxCoord
Points == [x : Coords, y : Coords]
Sizes == [width : Coords, height : Coords]

\* angles are multiples of a quarter turn: angle = k * pi/2
Angles == 0..3

---------------------------------------------------------------------------
(* Numeric helpers.                                                        *)

Abs(v) == IF v < 0 THEN 0 - v ELSE v

Min(v, w) == IF w < v THEN w ELSE v

Max(v, w) == IF v < w THEN w ELSE v

\* fcompare(a, b) for float operands holding integer values:
\*   dt <= eps || dt < max(|a|, |b|) * eps, both sides multiplied by 1/eps
fcompare(fa, fb) ==
    LET dt == Abs(fa - fb)
    IN  dt * EpsInv <= 1 \/ dt * EpsInv < Max(Abs(fa), Abs(fb))

\* std::cos and std::sin at k quarter turns
Cos(k) == CASE k = 0 -> 1 [] k = 1 -> 0 [] k = 2 -> 0 - 1 [] k = 3 -> 0

Sin(k) == CASE k = 0 -> 0 [] k = 1 -> 1 [] k = 2 -> 0 [] k = 3 -> 0 - 1

---------------------------------------------------------------------------
(* point                                                                   *)

point(px, py) == [x |-> px, y |-> py]

\* point<float>::operator==
point_eq(p, q) == fcompare(p.x, q.x) /\ fcompare(p.y, q.y)

\* point::operator+(const point&)
point_add(p, q) == point(p.x + q.x, p.y + q.y)

\* point::operator-()
point_neg(p) == point(0 - p.x, 0 - p.y)

size(w, h) == [width |-> w, height |-> h]

---------------------------------------------------------------------------
(* rect: origin/position alias (x, y), size aliases (width, height)        *)

rect(rx, ry, rw, rh) == [x |-> rx, y |-> ry, width |-> rw, height |-> rh]

origin(r) == point(r.x, r.y)

left(r) == r.x

right(r) == r.x + r.width

top(r) == r.y

bottom(r) == r.y + r.height

top_left(r) == origin(r)

top_right(r) == point(r.x + r.width, r.y)

bottom_left(r) == point(r.x, r.y + r.height)

bottom_right(r) == point(r.x + r.width, r.y + r.height)

---------------------------------------------------------------------------
(* quad                                                                    *)

quad(tl, tr, br, bl) ==
    [top_left |-> tl, top_right |-> tr, bottom_right |-> br, bottom_left |-> bl]

\* quad(const rect&) taking the two right corners in the other order
quad_from_rect_crossed(r) == quad(top_left(r), bottom_right(r), top_right(r), bottom_left(r))

\* quad::quad(const rect&)
quad_from_rect(r) == quad(top_left(r), top_right(r), bottom_right(r), bottom_left(r))

\* quad<float>::operator==
quad_eq(q1, q2) ==
    /\ point_eq(q1.top_left, q2.top_left)
    /\ point_eq(q1.top_right, q2.top_right)
    /\ point_eq(q1.bottom_right, q2.bottom_right)
    /\ point_eq(q1.bottom_left, q2.bottom_left)

---------------------------------------------------------------------------
(* transform                                                               *)

transform(va, vb, vc, vd, vtx, vty) ==
    [a |-> va, b |-> vb, c |-> vc, d |-> vd, tx |-> vtx, ty |-> vty]

identity == transform(1, 0, 0, 1, 0, 0)

translation(p) == transform(1, 0, 0, 1, p.x, p.y)

scale(s) == transform(s.width, 0, 0, s.height, 0, 0)

rotation(k) == transform(Cos(k), 0 - Sin(k), Sin(k), Cos(k), 0, 0)

\* operator* with the operands exchanged (the product u * t)
transform_mul_reversed(t, u) ==
    transform(u.a * t.a + u.b * t.c,
              u.a * t.b + u.b * t.d,
              u.c * t.a + u.d * t.c,
              u.c * t.b + u.d * t.d,
              u.tx + u.a * t.tx + u.b * t.ty,
              u.ty + u.c * t.tx + u.d * t.ty)

\* transform::operator*(const transform&)
transform_mul(t, u) ==
    transform(t.a * u.a + t.b * u.c,
              t.a * u.b + t.b * u.d,
              t.c * u.a + t.d * u.c,
              t.c * u.b + t.d * u.d,
              t.tx + t.a * u.tx + t.b * u.ty,
              t.ty + t.c * u.tx + t.d * u.ty)

\* rotation about a pivot with the two translations exchanged
rotation_pivot_exchanged(k, p) ==
    transform_mul(transform_mul(translation(point_neg(p)), rotation(k)), translation(p))

\* transform::rotation(angle, p)
rotation_pivot(k, p) ==
    transform_mul(transform_mul(translation(p), rotation(k)), translation(point_neg(p)))

\* transform::operator+(const point&)
transform_add(t, p) ==
    transform(t.a, t.b, t.c, t.d,
              t.tx + t.a * p.x + t.b * p.y,
              t.ty + t.c * p.x + t.d * p.y)

\* transform::operator-(const point&)
transform_sub(t, p) == transform_add(t, point_neg(p))

\* operator*(const size&) scaling each row by one factor instead of each column
transform_mul_size_by_rows(t, s) ==
    transform(t.a * s.width, t.b * s.width, t.c * s.height, t.d * s.height, t.tx, t.ty)

\* transform::operator*(const size&)
transform_mul_size(t, s) ==
    transform(t.a * s.width, t.b * s.height, t.c * s.width, t.d * s.height, t.tx, t.ty)

\* transform::apply(const point&)
apply(t, p) == point(t.a * p.x + t.c * p.y + t.tx, t.b * p.x + t.d * p.y + t.ty)

\* apply(rect) listing the bottom corners left to right
apply_rect_row_order(t, r) ==
    quad(apply(t, origin(r)), apply(t, top_right(r)),
         apply(t, bottom_left(r)), apply(t, bottom_right(r)))

\* transform::apply(const rect&)
apply_rect(t, r) ==
    quad(apply(t, origin(r)), apply(t, top_right(r)),
         apply(t, bottom_right(r)), apply(t, bottom_left(r)))

\* transform::apply(const quad&)
apply_quad(t, q) ==
    quad(apply(t, q.top_left), apply(t, q.top_right),
         apply(t, q.bottom_right), apply(t, q.bottom_left))

---------------------------------------------------------------------------
(* rect<int> set algebra                                                   *)

\* rect<int>::operator==
rect_eq(r, o) == r.x = o.x /\ r.y = o.y /\ r.width = o.width /\ r.height = o.height

\* contains open on the right and bottom edge
contains_half_open(r, pos) ==
    pos.x >= r.x /\ pos.x < r.x + r.width /\ pos.y >= r.y /\ pos.y < r.y + r.height

\* rect::contains(const point_type&)
contains(r, pos) ==
    pos.x >= r.x /\ pos.x <= r.x + r.width /\ pos.y >= r.y /\ pos.y <= r.y + r.height

\* intersects counting an overlap of zero width or height
intersects_inclusive(r, o) ==
    /\ (Min(right(r), right(o)) - Max(r.x, o.x)) >= 0
    /\ (Min(bottom(r), bottom(o)) - Max(r.y, o.y)) >= 0

\* rect::intersects(const rect&)
intersects(r, o) ==
    /\ (Min(right(r), right(o)) - Max(r.x, o.x)) > 0
    /\ (Min(bottom(r), bottom(o)) - Max(r.y, o.y)) > 0

\* std::numeric_limits<int>::epsilon()
epsilon == 0

\* intersects(point) leaving out the points of the edges
intersects_point_exclusive(r, p) ==
    /\ (Min(right(r), p.x + epsilon) - Max(r.x, p.x)) > 0
    /\ (Min(bottom(r), p.y + epsilon) - Max(r.y, p.y)) > 0

\* rect::intersects(const point_type&)
intersects_point(r, p) ==
    /\ (Min(right(r), p.x + epsilon) - Max(r.x, p.x)) >= 0
    /\ (Min(bottom(r), p.y + epsilon) - Max(r.y, p.y)) >= 0

\* get_union measuring the size from the origin of *this instead of (nx, ny)
get_union_from_own_origin(r, rhs) ==
    LET nx == Min(r.x, rhs.x)
        ny == Min(r.y, rhs.y)
    IN  rect(nx, ny, Max(right(r), right(rhs)) - r.x, Max(bottom(r), bottom(rhs)) - r.y)

\* rect::get_union(const rect&)
get_union(r, rhs) ==
    LET nx == Min(r.x, rhs.x)
        ny == Min(r.y, rhs.y)
    IN  rect(nx, ny, Max(right(r), right(rhs)) - nx, Max(bottom(r), bottom(rhs)) - ny)

\* merge taking the origin of the right operand
merge_from_rhs_origin(r, rhs) ==
    rect(rhs.x, rhs.y, Max(right(r), right(rhs)) - rhs.x, Max(bottom(r), bottom(rhs)) - rhs.y)

\* rect::merge(const rect&): the value assigned to *this
merge(r, rhs) ==
    LET nx == Min(r.x, rhs.x)
        ny == Min(r.y, rhs.y)
    IN  rect(nx, ny, Max(right(r), right(rhs)) - nx, Max(bottom(r), bottom(rhs)) - ny)

\* merged normalising the result to a non-negative size
merged_normalised(r, rhs) ==
    LET nx == Min(r.x, rhs.x)
        ny == Min(r.y, rhs.y)
    IN  rect(nx, ny, Max(0, Max(right(r), right(rhs)) - nx),
             Max(0, Max(bottom(r), bottom(rhs)) - ny))

\* rect::merged(const rect&)
merged(r, rhs) ==
    LET nx == Min(r.x, rhs.x)
        ny == Min(r.y, rhs.y)
    IN  rect(nx, ny, Max(right(r), right(rhs)) - nx, Max(bottom(r), bottom(rhs)) - ny)

\* intersection giving the zero rect for an overlap of zero width or height too
intersection_zero_on_touch(r, rhs) ==
    LET nx == Max(r.x, rhs.x)
        nw == Min(right(r), right(rhs)) - nx
        ny == Max(r.y, rhs.y)
        nh == Min(bottom(r), bottom(rhs)) - ny
    IN  IF nw <= 0 THEN rect(0, 0, 0, 0)
        ELSE IF nh <= 0 THEN rect(0, 0, 0, 0)
        ELSE rect(nx, ny, nw, nh)

\* intersection without the tests for an empty overlap
intersection_unchecked(r, rhs) ==
    LET nx == Max(r.x, rhs.x)
        nw == Min(right(r), right(rhs)) - nx
        ny == Max(r.y, rhs.y)
        nh == Min(bottom(r), bottom(rhs)) - ny
    IN  rect(nx, ny, nw, nh)

\* rect::intersection(const rect&)
intersection(r, rhs) ==
    LET nx == Max(r.x, rhs.x)
        nw == Min(right(r), right(rhs)) - nx
        ny == Max(r.y, rhs.y)
        nh == Min(bottom(r), bottom(rhs)) - ny
    IN  IF nw < 0 THEN rect(0, 0, 0, 0)
        ELSE IF nh < 0 THEN rect(0, 0, 0, 0)
        ELSE rect(nx, ny, nw, nh)

\* rect::reduce(const point_type&): the value *this holds afterwards
reduce(r, pt) == rect(r.x + pt.x, r.y + pt.y, r.width - 2 * pt.x, r.height - 2 * pt.y)

\* rect::reduced(const point_type&)
reduced(r, pt) == rect(r.x + pt.x, r.y + pt.y, r.width - (2 * pt.x), r.height - (2 * pt.y))

\* rect::expand(const point_type&): the value *this holds afterwards
expand(r, pt) == rect(r.x - pt.x, r.y - pt.y, r.width + 2 * pt.x, r.height + 2 * pt.y)

\* expanded growing the size by the delta once instead of once per side
expanded_one_side(r, pt) == rect(r.x - pt.x, r.y - pt.y, r.width + pt.x, r.height + pt.y)

\* rect::expanded(const point_type&)
expanded(r, pt) == rect(r.x - pt.x, r.y - pt.y, r.width + (2 * pt.x), r.height + (2 * pt.y))

\* rect::create_from_top_left(p, s)
create_from_top_left(p, s) == rect(p.x, p.y, s.width, s.height)

\* rect::create_from_top_right(p, s)
create_from_top_right(p, s) == rect(p.x - s.width, p.y, s.width, s.height)

\* create_from_bottom_left taking the point for the top-left corner
create_from_bottom_left_unshifted(p, s) == rect(p.x, p.y, s.width, s.height)

\* rect::create_from_bottom_left(p, s)
create_from_bottom_left(p, s) == rect(p.x, p.y - s.height, s.width, s.height)

\* rect::create_from_bottom_right(p, s)
create_from_bottom_right(p, s) == rect(p.x - s.width, p.y - s.height, s.width, s.height)

\* static_cast<int>(n * 0.5): the double n / 2 truncated toward zero
HalfToInt(n) == IF n >= 0 THEN n \div 2 ELSE 0 - ((0 - n) \div 2)

\* rect<int>::middle: static_cast<int>(x + width * 0.5), static_cast<int>(y + height * 0.5)
middle(r) == point(HalfToInt(2 * r.x + r.width), HalfToInt(2 * r.y + r.height))

\* rect<int>::middle_left
middle_left(r) == point(r.x, HalfToInt(2 * r.y + r.height))

\* rect<int>::middle_right
middle_right(r) == point(r.x + r.width, HalfToInt(2 * r.y + r.height))

\* rect<int>::middle_top: static_cast<int>(x * 0.5), y
middle_top(r) == point(HalfToInt(r.x), r.y)

\* rect<int>::middle_bottom: static_cast<int>(x * 0.5), y + height
middle_bottom(r) == point(HalfToInt(r.x), r.y + r.height)

---------------------------------------------------------------------------
(* Input sets of the calls.                                                *)

\* transforms a caller gets from the static builders
Built ==
    {identity}
      \cup {translation(p) : p \in Points}
      \cup {scale(s) : s \in Sizes}
      \cup {rotation(k) : k \in Angles}
      \cup {rotation_pivot(k, p) : k \in Angles, p \in Points}

\* rects handed to transform::apply
TRects == {rect(p.x, p.y, w, h) : p \in Points, w \in 0..MaxCoord, h \in 0..MaxCoord}

TQuads == {quad_from_rect(r) : r \in TRects}

\* rects of the rect algebra: any sign of width and height
Origins == 0..MaxOrigin
Dims == (0 - 1)..MaxDim
Rects == {rect(px, py, w, h) : px \in Origins, py \in Origins, w \in Dims, h \in Dims}

\* points tested against a rect: every corner of every rect is among them
RPoints == [x : (0 - 1)..(MaxOrigin + MaxDim), y : (0 - 1)..(MaxOrigin + MaxDim)]

\* sizes handed to the rect factories: any sign of width and height
RSizes == [width : Dims, height : Dims]

ZeroPoint == point(0, 0)
ZeroRect == rect(0, 0, 0, 0)
ZeroQuad == quad(ZeroPoint, ZeroPoint, ZeroPoint, ZeroPoint)

\* a call record with every field at its default
NoTCall ==
    [op |-> "none", self |-> identity, targ |-> identity, parg |-> ZeroPoint,
     sarg |-> size(0, 0), rarg |-> ZeroRect, qarg |-> ZeroQuad, angle |-> 0,
     tret |-> identity, pret |-> ZeroPoint, qret |-> ZeroQuad]

NoRCall ==
    [op |-> "none", self |-> ZeroRect, rarg |-> ZeroRect, parg |-> ZeroPoint,
     sarg |-> size(0, 0), rret |-> ZeroRect, bret |-> FALSE, pret |-> ZeroPoint]

BuildOps == {"identity", "translation", "scale", "rotation", "rotation_pivot"}

---------------------------------------------------------------------------
(* Transform calls.  A scenario builds a transform with one of the static  *)
(* builders (f = transform::...), possibly several times over, and then    *)
(* makes one call on it.                                                   *)

\* f = transform::identity()
TIdentity ==
    /\ tcall.op \in BuildOps
    /\ tf' = identity
    /\ tcall' = [NoTCall EXCEPT !.op = "identity", !.tret = identity]
    /\ UNCHANGED <<rvars, svars, dvars, cvars, nvars>>

\* f = transform::translation(p)
TTranslation(p) ==
    /\ tcall.op \in BuildOps
    /\ tf' = translation(p)
    /\ tcall' = [NoTCall EXCEPT !.op = "translation", !.parg = p, !.tret = translation(p)]
    /\ UNCHANGED <<rvars, svars, dvars, cvars, nvars>>

\* f = transform::scale(s)
TScale(s) ==
    /\ tcall.op \in BuildOps
    /\ tf' = scale(s)
    /\ tcall' = [NoTCall EXCEPT !.op = "scale", !.sarg = s, !.tret = scale(s)]
    /\ UNCHANGED <<rvars, svars, dvars, cvars, nvars>>

\* f = transform::rotation(angle)
TRotation(k) ==
    /\ tcall.op \in BuildOps
    /\ tf' = rotation(k)
    /\ tcall' = [NoTCall EXCEPT !.op = "rotation", !.angle = k, !.tret = rotation(k)]
    /\ UNCHANGED <<rvars, svars, dvars, cvars, nvars>>

\* f = transform::rotation(angle, p)
TRotationPivot(k, p) ==
    /\ tcall.op \in BuildOps
    /\ tf' = rotation_pivot(k, p)
    /\ tcall' = [NoTCall EXCEPT !.op = "rotation_pivot", !.angle = k, !.parg = p,
                                !.tret = rotation_pivot(k, p)]
    /\ UNCHANGED <<rvars, svars, dvars, cvars, nvars>>

\* f * t
TMul(u) ==
    /\ tcall.op \in BuildOps
    /\ tcall' = [NoTCall EXCEPT !.op = "mul", !.self = tf, !.targ = u,
                                !.tret = transform_mul(tf, u)]
    /\ UNCHANGED <<tf, rvars, svars, dvars, cvars, nvars>>

\* f *= t
TMulAssign(u) ==
    /\ tcall.op \in BuildOps
    /\ tf' = transform_mul(tf, u)
    /\ tcall' = [NoTCall EXCEPT !.op = "mul_assign", !.self = tf, !.targ = u,
                                !.tret = transform_mul(tf, u)]
    /\ UNCHANGED <<rvars, svars, dvars, cvars, nvars>>

\* f + p
TAdd(p) ==
    /\ tcall.op \in BuildOps
    /\ tcall' = [NoTCall EXCEPT !.op = "add", !.self = tf, !.parg = p,
                                !.tret = transform_add(tf, p)]
    /\ UNCHANGED <<tf, rvars, svars, dvars, cvars, nvars>>

\* f - p
TSub(p) ==
    /\ tcall.op \in BuildOps
    /\ tcall' = [NoTCall EXCEPT !.op = "sub", !.self = tf, !.parg = p,
                                !.tret = transform_sub(tf, p)]
    /\ UNCHANGED <<tf, rvars, svars, dvars, cvars, nvars>>

\* f += p
TAddAssign(p) ==
    /\ tcall.op \in BuildOps
    /\ tf' = transform_add(tf, p)
    /\ tcall' = [NoTCall EXCEPT !.op = "add_assign", !.self = tf, !.parg = p,
                                !.tret = transform_add(tf, p)]
    /\ UNCHANGED <<rvars, svars, dvars, cvars, nvars>>

\* f -= p
TSubAssign(p) ==
    /\ tcall.op \in BuildOps
    /\ tf' = transform_sub(tf, p)
    /\ tcall' = [NoTCall EXCEPT !.op = "sub_assign", !.self = tf, !.parg = p,
                                !.tret = transform_sub(tf, p)]
    /\ UNCHANGED <<rvars, svars, dvars, cvars, nvars>>

\* f.translated(p): *this += p
TTranslated(p) ==
    /\ tcall.op \in BuildOps
    /\ tf' = transform_add(tf, p)
    /\ tcall' = [NoTCall EXCEPT !.op = "translated", !.self = tf, !.parg = p,
                                !.tret = transform_add(tf, p)]
    /\ UNCHANGED <<rvars, svars, dvars, cvars, nvars>>

\* f.with_translation(p): *this + p
TWithTranslation(p) ==
    /\ tcall.op \in BuildOps
    /\ tcall' = [NoTCall EXCEPT !.op = "with_translation", !.self = tf, !.parg = p,
                                !.tret = transform_add(tf, p)]
    /\ UNCHANGED <<tf, rvars, svars, dvars, cvars, nvars>>

\* f * s
TMulSize(s) ==
    /\ tcall.op \in BuildOps
    /\ tcall' = [NoTCall EXCEPT !.op = "mul_size", !.self = tf, !.sarg = s,
                                !.tret = transform_mul_size(tf, s)]
    /\ UNCHANGED <<tf, rvars, svars, dvars, cvars, nvars>>

\* f *= s
TMulSizeAssign(s) ==
    /\ tcall.op \in BuildOps
    /\ tf' = transform_mul_size(tf, s)
    /\ tcall' = [NoTCall EXCEPT !.op = "mul_size_assign", !.self = tf, !.sarg = s,
                                !.tret = transform_mul_size(tf, s)]
    /\ UNCHANGED <<rvars, svars, dvars, cvars, nvars>>

\* f.scaled(s): *this *= s
TScaled(s) ==
    /\ tcall.op \in BuildOps
    /\ tf' = transform_mul_size(tf, s)
    /\ tcall' = [NoTCall EXCEPT !.op = "scaled", !.self = tf, !.sarg = s,
                                !.tret = transform_mul_size(tf, s)]
    /\ UNCHANGED <<rvars, svars, dvars, cvars, nvars>>

\* f.apply(p)
TApply(p) ==
    /\ tcall.op \in BuildOps
    /\ tcall' = [NoTCall EXCEPT !.op = "apply", !.self = tf, !.parg = p,
                                !.pret = apply(tf, p)]
    /\ UNCHANGED <<tf, rvars, svars, dvars, cvars, nvars>>

\* f.apply(r)
TApplyRect(r) ==
    /\ tcall.op \in BuildOps
    /\ tcall' = [NoTCall EXCEPT !.op = "apply_rect", !.self = tf, !.rarg = r,
                                !.qret = apply_rect(tf, r)]
    /\ UNCHANGED <<tf, rvars, svars, dvars, cvars, nvars>>

\* f.apply(q)
TApplyQuad(q) ==
    /\ tcall.op \in BuildOps
    /\ tcall' = [NoTCall EXCEPT !.op = "apply_quad", !.self = tf, !.qarg = q,
                                !.qret = apply_quad(tf, q)]
    /\ UNCHANGED <<tf, rvars, svars, dvars, cvars, nvars>>

\* p * f
TPointTimes(p) ==
    /\ tcall.op \in BuildOps
    /\ tcall' = [NoTCall EXCEPT !.op = "point_times", !.self = tf, !.parg = p,
                                !.pret = apply(tf, p)]
    /\ UNCHANGED <<tf, rvars, svars, dvars, cvars, nvars>>

\* r * f
TRectTimes(r) ==
    /\ tcall.op \in BuildOps
    /\ tcall' = [NoTCall EXCEPT !.op = "rect_times", !.self = tf, !.rarg = r,
                                !.qret = apply_rect(tf, r)]
    /\ UNCHANGED <<tf, rvars, svars, dvars, cvars, nvars>>

\* q * f
TQuadTimes(q) ==
    /\ tcall.op \in BuildOps
    /\ tcall' = [NoTCall EXCEPT !.op = "quad_times", !.self = tf, !.qarg = q,
                                !.qret = apply_quad(tf, q)]
    /\ UNCHANGED <<tf, rvars, svars, dvars, cvars, nvars>>

TNext ==
    \/ tcall.op \in BuildOps /\ (TIdentity)
    \/ tcall.op \in BuildOps /\ \E p \in Points : TTranslation(p)
    \/ tcall.op \in BuildOps /\ \E s \in Sizes : TScale(s)
    \/ tcall.op \in BuildOps /\ \E k \in Angles : TRotation(k)
    \/ tcall.op \in BuildOps /\ \E k \in Angles, p \in Points : TRotationPivot(k, p)
    \/ tcall.op \in BuildOps /\ \E u \in Built : TMul(u)
    \/ tcall.op \in BuildOps /\ \E u \in Built : TMulAssign(u)
    \/ tcall.op \in BuildOps /\ \E p \in Points : TAdd(p)
    \/ tcall.op \in BuildOps /\ \E p \in Points : TSub(p)
    \/ tcall.op \in BuildOps /\ \E p \in Points : TAddAssign(p)
    \/ tcall.op \in BuildOps /\ \E p \in Points : TSubAssign(p)
    \/ tcall.op \in BuildOps /\ \E p \in Points : TTranslated(p)
    \/ tcall.op \in BuildOps /\ \E p \in Points : TWithTranslation(p)
    \/ tcall.op \in BuildOps /\ \E s \in Sizes : TMulSize(s)
    \/ tcall.op \in BuildOps /\ \E s \in Sizes : TMulSizeAssign(s)
    \/ tcall.op \in BuildOps /\ \E s \in Sizes : TScaled(s)
    \/ tcall.op \in BuildOps /\ \E p \in Points : TApply(p)
    \/ tcall.op \in BuildOps /\ \E r \in TRects : TApplyRect(r)
    \/ tcall.op \in BuildOps /\ \E q \in TQuads : TApplyQuad(q)
    \/ tcall.op \in BuildOps /\ \E p \in Points : TPointTimes(p)
    \/ tcall.op \in BuildOps /\ \E r \in TRects : TRectTimes(r)
    \/ tcall.op \in BuildOps /\ \E q \in TQuads : TQuadTimes(q)

---------------------------------------------------------------------------
(* Rect calls.  A scenario constructs a rect (r = {x, y, w, h}) and then   *)
(* makes one call on it.                                                   *)

\* r = rect(x, y, w, h)
RConstruct(r) ==
    /\ rcall.op = "rect"
    /\ rc' = r
    /\ rcall' = [NoRCall EXCEPT !.op = "rect", !.rret = r]
    /\ UNCHANGED <<tvars, svars, dvars, cvars, nvars>>

\* r.contains(p)
RContains(p) ==
    /\ rcall.op = "rect"
    /\ rcall' = [NoRCall EXCEPT !.op = "contains", !.self = rc, !.parg = p,
                                !.bret = contains(rc, p)]
    /\ UNCHANGED <<rc, tvars, svars, dvars, cvars, nvars>>

\* r.intersects(o)
RIntersects(o) ==
    /\ rcall.op = "rect"
    /\ rcall' = [NoRCall EXCEPT !.op = "intersects", !.self = rc, !.rarg = o,
                                !.bret = intersects(rc, o)]
    /\ UNCHANGED <<rc, tvars, svars, dvars, cvars, nvars>>

\* r.intersects(p)
RIntersectsPoint(p) ==
    /\ rcall.op = "rect"
    /\ rcall' = [NoRCall EXCEPT !.op = "intersects_point", !.self = rc, !.parg = p,
                                !.bret = intersects_point(rc, p)]
    /\ UNCHANGED <<rc, tvars, svars, dvars, cvars, nvars>>

\* r.intersection(o)
RIntersection(o) ==
    /\ rcall.op = "rect"
    /\ rcall' = [NoRCall EXCEPT !.op = "intersection", !.self = rc, !.rarg = o,
                                !.rret = intersection(rc, o)]
    /\ UNCHANGED <<rc, tvars, svars, dvars, cvars, nvars>>

\* r.get_union(o)
RGetUnion(o) ==
    /\ rcall.op = "rect"
    /\ rcall' = [NoRCall EXCEPT !.op = "get_union", !.self = rc, !.rarg = o,
                                !.rret = get_union(rc, o)]
    /\ UNCHANGED <<rc, tvars, svars, dvars, cvars, nvars>>

\* r.merge(o)
RMerge(o) ==
    /\ rcall.op = "rect"
    /\ rc' = merge(rc, o)
    /\ rcall' = [NoRCall EXCEPT !.op = "merge", !.self = rc, !.rarg = o,
                                !.rret = merge(rc, o)]
    /\ UNCHANGED <<tvars, svars, dvars, cvars, nvars>>

\* r.merged(o)
RMerged(o) ==
    /\ rcall.op = "rect"
    /\ rcall' = [NoRCall EXCEPT !.op = "merged", !.self = rc, !.rarg = o,
                                !.rret = merged(rc, o)]
    /\ UNCHANGED <<rc, tvars, svars, dvars, cvars, nvars>>

\* r.reduce(p)
RReduce(p) ==
    /\ rcall.op = "rect"
    /\ rc' = reduce(rc, p)
    /\ rcall' = [NoRCall EXCEPT !.op = "reduce", !.self = rc, !.parg = p,
                                !.rret = reduce(rc, p)]
    /\ UNCHANGED <<tvars, svars, dvars, cvars, nvars>>

\* r.reduced(p)
RReduced(p) ==
    /\ rcall.op = "rect"
    /\ rcall' = [NoRCall EXCEPT !.op = "reduced", !.self = rc, !.parg = p,
                                !.rret = reduced(rc, p)]
    /\ UNCHANGED <<rc, tvars, svars, dvars, cvars, nvars>>

\* r.expand(p)
RExpand(p) ==
    /\ rcall.op = "rect"
    /\ rc' = expand(rc, p)
    /\ rcall' = [NoRCall EXCEPT !.op = "expand", !.self = rc, !.parg = p,
                                !.rret = expand(rc, p)]
    /\ UNCHANGED <<tvars, svars, dvars, cvars, nvars>>

\* r.expanded(p)
RExpanded(p) ==
    /\ rcall.op = "rect"
    /\ rcall' = [NoRCall EXCEPT !.op = "expanded", !.self = rc, !.parg = p,
                                !.rret = expanded(rc, p)]
    /\ UNCHANGED <<rc, tvars, svars, dvars, cvars, nvars>>

\* r = rect::create_from_top_left(p, s), on a freshly declared r
RCreateFromTopLeft(p, s) ==
    /\ rcall.op = "rect" /\ rc = ZeroRect
    /\ rc' = create_from_top_left(p, s)
    /\ rcall' = [NoRCall EXCEPT !.op = "create_from_top_left", !.parg = p, !.sarg = s,
                                !.rret = create_from_top_left(p, s)]
    /\ UNCHANGED <<tvars, svars, dvars, cvars, nvars>>

\* r = rect::create_from_top_right(p, s), on a freshly declared r
RCreateFromTopRight(p, s) ==
    /\ rcall.op = "rect" /\ rc = ZeroRect
    /\ rc' = create_from_top_right(p, s)
    /\ rcall' = [NoRCall EXCEPT !.op = "create_from_top_right", !.parg = p, !.sarg = s,
                                !.rret = create_from_top_right(p, s)]
    /\ UNCHANGED <<tvars, svars, dvars, cvars, nvars>>

\* r = rect::create_from_bottom_left(p, s), on a freshly declared r
RCreateFromBottomLeft(p, s) ==
    /\ rcall.op = "rect" /\ rc = ZeroRect
    /\ rc' = create_from_bottom_left(p, s)
    /\ rcall' = [NoRCall EXCEPT !.op = "create_from_bottom_left", !.parg = p, !.sarg = s,
                                !.rret = create_from_bottom_left(p, s)]
    /\ UNCHANGED <<tvars, svars, dvars, cvars, nvars>>

\* r = rect::create_from_bottom_right(p, s), on a freshly declared r
RCreateFromBottomRight(p, s) ==
    /\ rcall.op = "rect" /\ rc = ZeroRect
    /\ rc' = create_from_bottom_right(p, s)
    /\ rcall' = [NoRCall EXCEPT !.op = "create_from_bottom_right", !.parg = p, !.sarg = s,
                                !.rret = create_from_bottom_right(p, s)]
    /\ UNCHANGED <<tvars, svars, dvars, cvars, nvars>>

\* r.middle()
RMiddle ==
    /\ rcall.op = "rect"
    /\ rcall' = [NoRCall EXCEPT !.op = "middle", !.self = rc, !.pret = middle(rc)]
    /\ UNCHANGED <<rc, tvars, svars, dvars, cvars, nvars>>

\* r.middle_left()
RMiddleLeft ==
    /\ rcall.op = "rect"
    /\ rcall' = [NoRCall EXCEPT !.op = "middle_left", !.self = rc, !.pret = middle_left(rc)]
    /\ UNCHANGED <<rc, tvars, svars, dvars, cvars, nvars>>

\* r.middle_right()
RMiddleRight ==
    /\ rcall.op = "rect"
    /\ rcall' = [NoRCall EXCEPT !.op = "middle_right", !.self = rc,
                                !.pret = middle_right(rc)]
    /\ UNCHANGED <<rc, tvars, svars, dvars, cvars, nvars>>

\* r.middle_top()
RMiddleTop ==
    /\ rcall.op = "rect"
    /\ rcall' = [NoRCall EXCEPT !.op = "middle_top", !.self = rc, !.pret = middle_top(rc)]
    /\ UNCHANGED <<rc, tvars, svars, dvars, cvars, nvars>>

\* r.middle_bottom()
RMiddleBottom ==
    /\ rcall.op = "rect"
    /\ rcall' = [NoRCall EXCEPT !.op = "middle_bottom", !.self = rc,
                                !.pret = middle_bottom(rc)]
    /\ UNCHANGED <<rc, tvars, svars, dvars, cvars, nvars>>

RNext ==
    \/ rcall.op = "rect" /\ \E r \in Rects : RConstruct(r)
    \/ rcall.op = "rect" /\ \E p \in RPoints : RContains(p)
    \/ rcall.op = "rect" /\ \E o \in Rects : RIntersects(o)
    \/ rcall.op = "rect" /\ \E p \in RPoints : RIntersectsPoint(p)
    \/ rcall.op = "rect" /\ \E o \in Rects : RIntersection(o)
    \/ rcall.op = "rect" /\ \E o \in Rects : RGetUnion(o)
    \/ rcall.op = "rect" /\ \E o \in Rects : RMerge(o)
    \/ rcall.op = "rect" /\ \E o \in Rects : RMerged(o)
    \/ rcall.op = "rect" /\ \E p \in Points : RReduce(p)
    \/ rcall.op = "rect" /\ \E p \in Points : RReduced(p)
    \/ rcall.op = "rect" /\ \E p \in Points : RExpand(p)
    \/ rcall.op = "rect" /\ \E p \in Points : RExpanded(p)
    \/ rcall.op = "rect" /\ \E p \in Points, s \in RSizes : RCreateFromTopLeft(p, s)
    \/ rcall.op = "rect" /\ \E p \in Points, s \in RSizes : RCreateFromTopRight(p, s)
    \/ rcall.op = "rect" /\ \E p \in Points, s \in RSizes : RCreateFromBottomLeft(p, s)
    \/ rcall.op = "rect" /\ \E p \in Points, s \in RSizes : RCreateFromBottomRight(p, s)
    \/ rcall.op = "rect" /\ (RMiddle)
    \/ rcall.op = "rect" /\ (RMiddleLeft)
    \/ rcall.op = "rect" /\ (RMiddleRight)
    \/ rcall.op = "rect" /\ (RMiddleTop)
    \/ rcall.op = "rect" /\ (RMiddleBottom)

---------------------------------------------------------------------------
(* The storage of rect<int>.  The object is two anonymous unions side by   *)
(* side; each member is a view of some value_type slots of the object.     *)
(* A member access reads or writes the slots of that member and no other.  *)

\* Number of value_type slots a member occupies: a point or a size is two
\* values, a coordinate is one.
SlotsOf ==
    [origin |-> 2, position |-> 2, x |-> 1, y |-> 1,
     size |-> 2, width |-> 1, height |-> 1]

\* The layout the members would have in a struct without unions: every
\* member behind the previous one.
OffsetOfSeparate ==
    [origin |-> 0, position |-> 2, x |-> 4, y |-> 5,
     size |-> 6, width |-> 8, height |-> 9]

\* The slot each member starts at.  The members of the first union
\* (origin, position, struct { x, y }) start at the start of the object; the
\* members of the second union (size, struct { width, height }) start behind
\* the first union.
OffsetOf ==
    [origin |-> 0, position |-> 0, x |-> 0, y |-> 1,
     size |-> 2, width |-> 2, height |-> 3]

\* The slots of the object: from its start to the end of its last member.
Slots ==
    LET ends == {OffsetOf[m] + SlotsOf[m] - 1 : m \in DOMAIN OffsetOf}
    IN  0..(CHOOSE n \in ends : \A k \in ends : k <= n)

ZeroStore == [c \in Slots |-> 0]

ReadScalar(st, m) == st[OffsetOf[m]]

ReadPoint(st, m) == point(st[OffsetOf[m]], st[OffsetOf[m] + 1])

ReadSize(st, m) == size(st[OffsetOf[m]], st[OffsetOf[m] + 1])

WriteScalar(st, m, v) == [st EXCEPT ![OffsetOf[m]] = v]

WritePair(st, m, v, w) == [st EXCEPT ![OffsetOf[m]] = v, ![OffsetOf[m] + 1] = w]

\* rect(x, y, w, h) : origin{ x, y }, size{ w, h }
StoreOf(r) ==
    WritePair(WritePair(ZeroStore, "origin", r.x, r.y), "size", r.width, r.height)

\* The rect the member functions see through x, y, width and height.
RectOfStore(st) ==
    rect(ReadScalar(st, "x"), ReadScalar(st, "y"),
         ReadScalar(st, "width"), ReadScalar(st, "height"))

\* Every slot holds a value of the bounded input range.
InRange(st) == \A c \in Slots : st[c] \in Coords

SSizes == [width : Coords, height : Coords]

SRects == {rect(p.x, p.y, w, w) : p \in Points, w \in 0..MaxCoord}

\* The members the scalar mutators write: set_x, add_x and mul_x write x, ...
ScalarMembers == {"x", "y", "width", "height"}

\* One mutator call: the object takes the new storage, the call is recorded.
Mutate(op, m, a, b, st) ==
    /\ InRange(st)
    /\ store' = st
    /\ scall' = [op |-> op, m |-> m, a |-> a, b |-> b]
    /\ UNCHANGED <<tvars, rvars, dvars, cvars, nvars>>

\* set_x, set_y, set_width, set_height: m = v for the member m of the name.
SSet ==
    \E m \in ScalarMembers, v \in Coords :
        Mutate("set", m, v, 0, WriteScalar(store, m, v))

SSetPosition ==
    \E p \in Points :
        Mutate("set_position", "origin", p.x, p.y,
               WritePair(store, "origin", p.x, p.y))

SSetSize ==
    \E s \in SSizes :
        Mutate("set_size", "size", s.width, s.height,
               WritePair(store, "size", s.width, s.height))

\* add_x, add_y, add_width, add_height: m += v.
SAdd ==
    \E m \in ScalarMembers, v \in Coords :
        Mutate("add", m, 0, 0, WriteScalar(store, m, ReadScalar(store, m) + v))

SAddPoint ==
    \E p \in Points :
        LET s1 == WriteScalar(store, "x", ReadScalar(store, "x") + p.x)
            s2 == WriteScalar(s1, "y", ReadScalar(s1, "y") + p.y)
        IN  Mutate("add_point", "x", 0, 0, s2)

SAddSize ==
    \E s \in SSizes :
        LET s1 == WriteScalar(store, "width", ReadScalar(store, "width") + s.width)
            s2 == WriteScalar(s1, "height", ReadScalar(s1, "height") + s.height)
        IN  Mutate("add_size", "width", 0, 0, s2)

\* mul_x, mul_y, mul_width, mul_height: m *= v.
SMul ==
    \E m \in ScalarMembers, v \in Coords :
        Mutate("mul", m, 0, 0, WriteScalar(store, m, ReadScalar(store, m) * v))

SPlusAssign ==
    \E p \in Points :
        LET s1 == WriteScalar(store, "x", ReadScalar(store, "x") + p.x)
            s2 == WriteScalar(s1, "y", ReadScalar(s1, "y") + p.y)
        IN  Mutate("operator+=", "x", 0, 0, s2)

SMinusAssign ==
    \E p \in Points :
        LET s1 == WriteScalar(store, "x", ReadScalar(store, "x") - p.x)
            s2 == WriteScalar(s1, "y", ReadScalar(s1, "y") - p.y)
        IN  Mutate("operator-=", "x", 0, 0, s2)

SReduce ==
    \E p \in Points :
        LET s1 == WriteScalar(store, "x", ReadScalar(store, "x") + p.x)
            s2 == WriteScalar(s1, "y", ReadScalar(s1, "y") + p.y)
            s3 == WriteScalar(s2, "width", ReadScalar(s2, "width") - 2 * p.x)
            s4 == WriteScalar(s3, "height", ReadScalar(s3, "height") - 2 * p.y)
        IN  Mutate("reduce", "x", 0, 0, s4)

SExpand ==
    \E p \in Points :
        LET s1 == WriteScalar(store, "x", ReadScalar(store, "x") - p.x)
            s2 == WriteScalar(s1, "y", ReadScalar(s1, "y") - p.y)
            s3 == WriteScalar(s2, "width", ReadScalar(s2, "width") + 2 * p.x)
            s4 == WriteScalar(s3, "height", ReadScalar(s3, "height") + 2 * p.y)
        IN  Mutate("expand", "x", 0, 0, s4)

\* *this = { nx, ny, ... }: a rect built by rect(x, y, w, h) is assigned whole.
SMerge ==
    \E rhs \in SRects :
        Mutate("merge", "origin", 0, 0, StoreOf(merge(RectOfStore(store), rhs)))

\* tmp = r; r = *this; *this = tmp: the object takes the storage of r.
SSwap ==
    \E r \in SRects : Mutate("swap", "origin", 0, 0, StoreOf(r))

SNext ==
    \/ SSet
    \/ SSetPosition
    \/ SSetSize
    \/ SAdd
    \/ SAddPoint
    \/ SAddSize
    \/ SMul
    \/ SPlusAssign
    \/ SMinusAssign
    \/ SReduce
    \/ SExpand
    \/ SMerge
    \/ SSwap

---------------------------------------------------------------------------
(* Structural detection.  A foreign type is a struct whose members are     *)
(* scalars of one type, declared in some order, or the two nested structs  *)
(* origin and size; it may overlay a second member list on the first in an *)
(* anonymous union, as nano::rect does.  A member's offset is the number   *)
(* of scalars declared before it in its list times the size of the scalar. *)

Scalars == {"float", "double", "int", "unsigned int"}

sizeof(U) == IF U = "double" THEN 8 ELSE 4

\* The member names of the conventions, in the order of the convention.
names ==
    [os |-> <<"origin", "size">>,
     xywh |-> <<"x", "y", "width", "height">>,
     XYWH |-> <<"X", "Y", "Width", "Height">>,
     ltrb |-> <<"left", "top", "right", "bottom">>,
     xy |-> <<"x", "y">>,
     XY |-> <<"X", "Y">>,
     wh |-> <<"width", "height">>,
     WH |-> <<"Width", "Height">>]

Range(seq) == {seq[i] : i \in DOMAIN seq}

\* Every declaration order of a list of members: the position of each
\* member in its struct, counted in members.
Orders(seq) ==
    {f \in [Range(seq) -> 0..(Len(seq) - 1)] :
        \A m, n \in Range(seq) : m /= n => f[m] /= f[n]}

\* The member lists a struct can declare: struct { T ...; } with the scalar
\* members of one convention in any order, or struct { Point origin; Size
\* size; } in either order with each nested struct of two scalars in either
\* order.  (A list of scalars carries the fields of origin and size along;
\* they are read only when these members are declared.)
Views ==
    {[members |-> f, originFields |-> [x |-> 0, y |-> 1],
      sizeFields |-> [width |-> 0, height |-> 1]] :
        f \in UNION {Orders(names[c]) : c \in (DOMAIN names) \ {"os"}}}
    \cup
    {[members |-> [origin |-> 2 * f.origin, size |-> 2 * f.size],
      originFields |-> o, sizeFields |-> s] :
        f \in Orders(names.os), o \in Orders(names.xy), s \in Orders(names.wh)}

\* The struct that declares the members of convention c in the order of c.
view(c) ==
    CHOOSE v \in Views :
        /\ DOMAIN v.members = Range(names[c])
        /\ \A i \in DOMAIN names[c] :
               v.members[names[c][i]] = (IF c = "os" THEN 2 ELSE 1) * (i - 1)
        /\ v.originFields.x = 0
        /\ v.sizeFields.width = 0

\* Two member lists in one anonymous union: both start at offset 0.
Overlay(v, w) ==
    [members |-> [m \in (DOMAIN v.members) \cup (DOMAIN w.members) |->
                     IF m \in DOMAIN v.members THEN v.members[m] ELSE w.members[m]],
     originFields |-> IF "origin" \in DOMAIN w.members
                      THEN w.originFields ELSE v.originFields,
     sizeFields |-> IF "size" \in DOMAIN w.members
                    THEN w.sizeFields ELSE v.sizeFields]

TypeOf(kind, U, overlaid, v) ==
    [kind |-> kind, scalar |-> U, overlaid |-> overlaid,
     members |-> v.members, originFields |-> v.originFields,
     sizeFields |-> v.sizeFields]

\* nano::rect<U>: origin, size and x, y, width, height over the same storage.
nano_rect(U) == TypeOf("nano::rect", U, TRUE, Overlay(view("os"), view("xywh")))

nano_point(U) == TypeOf("nano::point", U, FALSE, view("xy"))

nano_size(U) == TypeOf("nano::size", U, FALSE, view("wh"))

\* has_members<T, Ops...>: every named member exists.
has_members(F, seq) == Range(seq) \subseteq DOMAIN F.members

\* offsetof(F, m), in bytes.
offsetof(F, m) == F.members[m] * sizeof(F.scalar)

is_rect_os_impl(F, hasMember) ==
    IF ~hasMember THEN FALSE
    ELSE /\ offsetof(F, "origin") = 0
         /\ offsetof(F, "size") = 2 * sizeof(F.scalar)
         /\ F.originFields.y * sizeof(F.scalar) = sizeof(F.scalar)
         /\ F.sizeFields.width * sizeof(F.scalar) = 0
         /\ F.sizeFields.height * sizeof(F.scalar) = sizeof(F.scalar)

is_rect_xywh_impl_by_name(F, hasMember) == hasMember

is_rect_xywh_impl(F, hasMember) ==
    IF ~hasMember THEN FALSE
    ELSE /\ offsetof(F, "x") = 0
         /\ offsetof(F, "y") = sizeof(F.scalar)
         /\ offsetof(F, "width") = sizeof(F.scalar) * 2
         /\ offsetof(F, "height") = sizeof(F.scalar) * 3

is_rect_XYWH_impl(F, hasMember) ==
    IF ~hasMember THEN FALSE
    ELSE /\ offsetof(F, "X") = 0
         /\ offsetof(F, "Y") = sizeof(F.scalar)
         /\ offsetof(F, "Width") = sizeof(F.scalar) * 2
         /\ offsetof(F, "Height") = sizeof(F.scalar) * 3

is_rect_ltrb_impl(F, hasMember) ==
    IF ~hasMember THEN FALSE
    ELSE /\ offsetof(F, "left") = 0
         /\ offsetof(F, "top") = sizeof(F.scalar)
         /\ offsetof(F, "right") = sizeof(F.scalar) * 2
         /\ offsetof(F, "bottom") = sizeof(F.scalar) * 3

is_rect_os(F) == is_rect_os_impl(F, has_members(F, names.os))

is_rect_xywh_without_priority(F) == is_rect_xywh_impl(F, has_members(F, names.xywh))

is_rect_xywh(F) ==
    is_rect_xywh_impl(F, has_members(F, names.xywh) /\ ~has_members(F, names.os))

is_rect_XYWH(F) == is_rect_XYWH_impl(F, has_members(F, names.XYWH))

is_rect_ltrb(F) == is_rect_ltrb_impl(F, has_members(F, names.ltrb))

is_point_xy_impl(F, hasMember) ==
    IF ~hasMember THEN FALSE
    ELSE /\ offsetof(F, "x") = 0
         /\ offsetof(F, "y") = sizeof(F.scalar)

is_point_XY_impl(F, hasMember) ==
    IF ~hasMember THEN FALSE
    ELSE /\ offsetof(F, "X") = 0
         /\ offsetof(F, "Y") = sizeof(F.scalar)

enable_if_point_xy(F) ==
    is_point_xy_impl(F, /\ has_members(F, names.xy)
                        /\ ~is_rect_os(F)
                        /\ ~is_rect_xywh(F))

enable_if_point_XY(F) ==
    is_point_XY_impl(F, has_members(F, names.XY) /\ ~is_rect_XYWH(F))

is_size_wh_impl(F, hasMember) ==
    IF ~hasMember THEN FALSE
    ELSE /\ offsetof(F, "width") = 0
         /\ offsetof(F, "height") = sizeof(F.scalar)

is_size_WH_impl(F, hasMember) ==
    IF ~hasMember THEN FALSE
    ELSE /\ offsetof(F, "Width") = 0
         /\ offsetof(F, "Height") = sizeof(F.scalar)

enable_if_size_wh(F) ==
    is_size_wh_impl(F, /\ has_members(F, names.wh)
                       /\ ~is_rect_os(F)
                       /\ ~is_rect_xywh(F))

enable_if_size_WH(F) ==
    is_size_WH_impl(F, has_members(F, names.WH) /\ ~is_rect_XYWH(F))

\* The one-argument constructors of rect<T> that take an F without a
\* conversion: the copy constructor when F is rect<T> itself, and every
\* constructor template whose enable_if holds for F.
rect_ctors(T, F) ==
    {c \in {"copy", "os", "xywh", "XYWH", "ltrb"} :
        \/ c = "copy" /\ F.kind = "nano::rect" /\ F.scalar = T
        \/ c = "os" /\ is_rect_os(F)
        \/ c = "xywh" /\ is_rect_xywh(F)
        \/ c = "XYWH" /\ is_rect_XYWH(F)
        \/ c = "ltrb" /\ is_rect_ltrb(F)}

point_ctors(T, F) ==
    {c \in {"copy", "xy", "XY"} :
        \/ c = "copy" /\ F.kind = "nano::point" /\ F.scalar = T
        \/ c = "xy" /\ enable_if_point_xy(F)
        \/ c = "XY" /\ enable_if_point_XY(F)}

size_ctors(T, F) ==
    {c \in {"copy", "wh", "WH"} :
        \/ c = "copy" /\ F.kind = "nano::size" /\ F.scalar = T
        \/ c = "wh" /\ enable_if_size_wh(F)
        \/ c = "WH" /\ enable_if_size_WH(F)}

\* std::is_constructible_v: overload resolution finds one best constructor.
\* The copy constructor, not a template, is better than any template; two
\* enabled templates take the same argument and are ambiguous.
is_constructible(ctors) == "copy" \in ctors \/ Cardinality(ctors) = 1

DDeclareStruct ==
    /\ ft.kind = "none"
    /\ \E v \in Views, U \in Scalars : ft' = TypeOf("struct", U, FALSE, v)
    /\ UNCHANGED <<tvars, rvars, svars, ck, cvars, nvars>>

DOverlay ==
    /\ ft.kind = "struct"
    /\ ~ft.overlaid
    /\ ck.target = "none"
    /\ \E v \in Views :
          /\ (DOMAIN v.members) \cap (DOMAIN ft.members) = {}
          /\ ft' = TypeOf("struct", ft.scalar, TRUE, Overlay(ft, v))
    /\ UNCHANGED <<tvars, rvars, svars, ck, cvars, nvars>>

\* The source type is one of nano's own types.
DDeclareNano ==
    /\ ft.kind = "none"
    /\ \E U \in Scalars : ft' \in {nano_rect(U), nano_point(U), nano_size(U)}
    /\ UNCHANGED <<tvars, rvars, svars, ck, cvars, nvars>>

DCheckRect ==
    /\ ft.kind /= "none"
    /\ ck.target = "none"
    /\ \E T \in Scalars :
          ck' = [target |-> "rect", T |-> T, ctors |-> rect_ctors(T, ft)]
    /\ UNCHANGED <<tvars, rvars, svars, ft, cvars, nvars>>

DCheckPoint ==
    /\ ft.kind /= "none"
    /\ ck.target = "none"
    /\ \E T \in Scalars :
          ck' = [target |-> "point", T |-> T, ctors |-> point_ctors(T, ft)]
    /\ UNCHANGED <<tvars, rvars, svars, ft, cvars, nvars>>

DCheckSize ==
    /\ ft.kind /= "none"
    /\ ck.target = "none"
    /\ \E T \in Scalars :
          ck' = [target |-> "size", T |-> T, ctors |-> size_ctors(T, ft)]
    /\ UNCHANGED <<tvars, rvars, svars, ft, cvars, nvars>>

DNext ==
    \/ DDeclareStruct
    \/ DOverlay
    \/ DDeclareNano
    \/ DCheckRect
    \/ DCheckPoint
    \/ DCheckSize

---------------------------------------------------------------------------
(* Conversion between rect<T> and a foreign struct of four scalars of the  *)
(* same integer type T.  A foreign value is the tuple of its four members  *)
(* in declaration order.  Integers have IntBits bits: unsigned arithmetic  *)
(* wraps, signed arithmetic that overflows is undefined and may give any   *)
(* value.                                                                  *)

IntBits == 2

IntScalars == {"int", "unsigned int"}

\* The values of type U: 0 .. 2^w - 1 unsigned, -2^(w-1) .. 2^(w-1) - 1 signed.
IntValues(U) ==
    IF U = "unsigned int" THEN 0..(2 ^ IntBits - 1)
    ELSE (0 - 2 ^ (IntBits - 1))..(2 ^ (IntBits - 1) - 1)

\* The values an arithmetic result n, computed in type U, can take.
Arith(U, n) ==
    IF U = "unsigned int" THEN {n % (2 ^ IntBits)}
    ELSE IF n \in IntValues(U) THEN {n}
    ELSE IntValues(U)

ForeignValues(U) ==
    {<<a, b, c, d>> : a \in IntValues(U), b \in IntValues(U),
                      c \in IntValues(U), d \in IntValues(U)}

\* rect.m for a foreign value f of a struct with the member layout of view v.
Member(v, f, m) == f[v.members[m] + 1]

\* rect(const RectType&) [xywh]; static_cast<value_type> of a value of the
\* same type keeps the value.
rect_from_xywh(f) ==
    rect(Member(view("xywh"), f, "x"), Member(view("xywh"), f, "y"),
         Member(view("xywh"), f, "width"), Member(view("xywh"), f, "height"))

convert_xywh_as_ltrb(r) == <<r.x, r.y, r.x + r.width, r.y + r.height>>

\* convert<RectType>() [xywh]: RectType{ x, y, width, height }, the members
\* initialised in declaration order.
convert_xywh(r) == <<r.x, r.y, r.width, r.height>>

rects_from_ltrb_as_xywh(U, f) ==
    {rect(Member(view("ltrb"), f, "left"), Member(view("ltrb"), f, "top"),
          Member(view("ltrb"), f, "right"), Member(view("ltrb"), f, "bottom"))}

\* rect(const RectType&) [ltrb]: the rects the constructor can produce.
rects_from_ltrb(U, f) ==
    {rect(Member(view("ltrb"), f, "left"), Member(view("ltrb"), f, "top"), w, h) :
        w \in Arith(U, Member(view("ltrb"), f, "right") - Member(view("ltrb"), f, "left")),
        h \in Arith(U, Member(view("ltrb"), f, "bottom") - Member(view("ltrb"), f, "top"))}

\* convert<RectType>() [ltrb]: RectType{ x, y, x + width, y + height }.
converts_ltrb(U, r) ==
    {<<r.x, r.y, rt, bt>> :
        rt \in Arith(U, r.x + r.width), bt \in Arith(U, r.y + r.height)}

CFromXYWH ==
    /\ cv.op = "none"
    /\ \E U \in IntScalars : \E f \in ForeignValues(U) :
          cv' = [op |-> "construct", conv |-> "xywh", scalar |-> U,
                 f |-> f, r |-> rect_from_xywh(f), g |-> <<0, 0, 0, 0>>]
    /\ UNCHANGED <<tvars, rvars, svars, dvars, nvars>>

CFromLTRB ==
    /\ cv.op = "none"
    /\ \E U \in IntScalars : \E f \in ForeignValues(U) :
          \E r \in rects_from_ltrb(U, f) :
              cv' = [op |-> "construct", conv |-> "ltrb", scalar |-> U,
                     f |-> f, r |-> r, g |-> <<0, 0, 0, 0>>]
    /\ UNCHANGED <<tvars, rvars, svars, dvars, nvars>>

CConvertXYWH ==
    /\ cv.op = "construct"
    /\ cv.conv = "xywh"
    /\ cv' = [cv EXCEPT !.op = "convert", !.g = convert_xywh(cv.r)]
    /\ UNCHANGED <<tvars, rvars, svars, dvars, nvars>>

CConvertLTRB ==
    /\ cv.op = "construct"
    /\ cv.conv = "ltrb"
    /\ \E g \in converts_ltrb(cv.scalar, cv.r) :
          cv' = [cv EXCEPT !.op = "convert", !.g = g]
    /\ UNCHANGED <<tvars, rvars, svars, dvars, nvars>>

CNext ==
    \/ CFromXYWH
    \/ CFromLTRB
    \/ CConvertXYWH
    \/ CConvertLTRB

---------------------------------------------------------------------------
(* range<int>: a pair (start, end).  A scenario constructs a range and     *)
(* then calls clipped_value or a comparison once, or sort() some times.    *)

MaxSorts == 2

\* range::range(value_type _start, value_type _end)
range(_start, _end) == [start |-> _start, end |-> _end]

\* range::length
length(r) == r.end - r.start

\* range::is_sorted
is_sorted(r) == r.start <= r.end

\* range::contains(value_type)
range_contains(r, x) == x >= r.start /\ x <= r.end

\* clipped_value clipping at start only
clipped_value_at_start_only(r, x) == IF x < r.start THEN r.start ELSE x

\* range::clipped_value
clipped_value(r, x) ==
    LET t == IF x < r.start THEN r.start ELSE x
    IN  IF t > r.end THEN r.end ELSE t

\* sort() swapping whenever the limits differ
sort_always_swaps(r) == IF r.start # r.end THEN range(r.end, r.start) ELSE r

\* range::sort
sort(r) == IF ~is_sorted(r) THEN range(r.end, r.start) ELSE r

\* range<int>::operator==
range_eq(r, o) == r.start = o.start /\ r.end = o.end

\* operator< ordering by length() first and by start second
range_lt_by_length(r, o) ==
    IF length(r) = length(o) THEN r.start < o.start ELSE length(r) < length(o)

\* range<int>::operator<
range_lt(r, o) == IF r.start = o.start THEN length(r) < length(o) ELSE r.start < o.start

\* range<int>::operator<=
range_le(r, o) == IF r.start = o.start THEN length(r) <= length(o) ELSE r.start <= o.start

\* range<int>::operator>
range_gt(r, o) == IF r.start = o.start THEN length(r) > length(o) ELSE r.start > o.start

\* range<int>::operator>=
range_ge(r, o) == IF r.start = o.start THEN length(r) >= length(o) ELSE r.start >= o.start

Ranges == [start : Coords, end : Coords]

NoGCall ==
    [op |-> "none", self |-> range(0, 0), x |-> 0, rarg |-> range(0, 0), n |-> 0,
     vret |-> 0, eq |-> FALSE, lt |-> FALSE, le |-> FALSE, gt |-> FALSE, ge |-> FALSE]

\* r = range(start, end)
GConstruct(r) ==
    /\ gcall.op = "none"
    /\ rg' = r
    /\ gcall' = [NoGCall EXCEPT !.op = "range", !.self = r]
    /\ UNCHANGED <<tvars, rvars, svars, dvars, cvars, pvars, qvars, mvars>>

\* r.clipped_value(x)
GClippedValue(x) ==
    /\ gcall.op = "range"
    /\ gcall' = [NoGCall EXCEPT !.op = "clipped_value", !.self = rg, !.x = x,
                                !.vret = clipped_value(rg, x)]
    /\ UNCHANGED <<rg, tvars, rvars, svars, dvars, cvars, pvars, qvars, mvars>>

\* r.sort(), the n-th time; self stays the range before the first sort()
GSort ==
    /\ gcall.op \in {"range", "sort"}
    /\ gcall.n < MaxSorts
    /\ rg' = sort(rg)
    /\ gcall' = [gcall EXCEPT !.op = "sort", !.n = @ + 1]
    /\ UNCHANGED <<tvars, rvars, svars, dvars, cvars, pvars, qvars, mvars>>

\* r == o, r < o, r <= o, r > o, r >= o
GCompare(o) ==
    /\ gcall.op = "range"
    /\ gcall' = [NoGCall EXCEPT !.op = "compare", !.self = rg, !.rarg = o,
                                !.eq = range_eq(rg, o), !.lt = range_lt(rg, o),
                                !.le = range_le(rg, o), !.gt = range_gt(rg, o),
                                !.ge = range_ge(rg, o)]
    /\ UNCHANGED <<rg, tvars, rvars, svars, dvars, cvars, pvars, qvars, mvars>>

GNext ==
    \/ gcall.op = "none" /\ \E r \in Ranges : GConstruct(r)
    \/ gcall.op = "range" /\ \E x \in Coords : GClippedValue(x)
    \/ GSort
    \/ gcall.op = "range" /\ \E o \in Ranges : GCompare(o)

---------------------------------------------------------------------------
(* point<int> comparisons.  A scenario compares a point p with a point q,  *)
(* q with a third point r, p with r and p with itself.                     *)

\* point<int>::operator==
point_eq_int(p, pt) == p.x = pt.x /\ p.y = pt.y

\* operator< ordering by x first and by y second
point_lt_lexicographic(p, pt) == p.x < pt.x \/ (p.x = pt.x /\ p.y < pt.y)

\* point::operator<
point_lt(p, pt) == (p.x < pt.x /\ p.y < pt.y)

\* point::operator<=
point_le(p, pt) == (p.x <= pt.x /\ p.y <= pt.y)

\* point::operator>
point_gt(p, pt) == (p.x > pt.x /\ p.y > pt.y)

\* point::operator>=
point_ge(p, pt) == (p.x >= pt.x /\ p.y >= pt.y)

NoPCall ==
    [op |-> "none", p |-> point(0, 0), q |-> point(0, 0), r |-> point(0, 0),
     eq |-> FALSE, lt |-> FALSE, le |-> FALSE, gt |-> FALSE, ge |-> FALSE,
     lt_qr |-> FALSE, lt_pr |-> FALSE, lt_pp |-> FALSE]

\* p == q, p < q, p <= q, p > q, p >= q, q < r, p < r, p < p
PCompare(p, q, r) ==
    /\ pcall.op = "none"
    /\ pcall' = [NoPCall EXCEPT !.op = "compare", !.p = p, !.q = q, !.r = r,
                                !.eq = point_eq_int(p, q), !.lt = point_lt(p, q),
                                !.le = point_le(p, q), !.gt = point_gt(p, q),
                                !.ge = point_ge(p, q), !.lt_qr = point_lt(q, r),
                                !.lt_pr = point_lt(p, r), !.lt_pp = point_lt(p, p)]
    /\ UNCHANGED <<tvars, rvars, svars, dvars, cvars, gvars, qvars, mvars>>

PNext == pcall.op = "none" /\ \E p, q, r \in Points : PCompare(p, q, r)

---------------------------------------------------------------------------
(* quad built from a rect.  quad holds four point_type members by value;   *)
(* quad(const rect&) copies the four corners the rect returns by value.    *)
(* A scenario builds q = quad(r), then assigns to fields of r some times   *)
(* and at last assigns a point to one corner of q.                         *)

MaxMutations == 2

Corners == {"top_left", "top_right", "bottom_right", "bottom_left"}

NoQCall ==
    [op |-> "none", n |-> 0, corner |-> "top_left",
     r0 |-> ZeroRect, q0 |-> ZeroQuad, rbefore |-> ZeroRect, qbefore |-> ZeroQuad]

\* rect<int> r = {x, y, w, h}; quad<int> q(r)
QConstruct(r) ==
    /\ qcall.op = "none"
    /\ qr' = r
    /\ qd' = quad_from_rect(r)
    /\ qcall' = [NoQCall EXCEPT !.op = "quad", !.r0 = r, !.q0 = quad_from_rect(r),
                                !.rbefore = r, !.qbefore = quad_from_rect(r)]
    /\ UNCHANGED <<tvars, rvars, svars, dvars, cvars, gvars, pvars, mvars>>

\* r.x = v, r.y = v, r.width = v or r.height = v
QMutateRect(m, v) ==
    /\ qcall.op \in {"quad", "mutate_rect"}
    /\ qcall.n < MaxMutations
    /\ qr' = [qr EXCEPT ![m] = v]
    /\ qcall' = [qcall EXCEPT !.op = "mutate_rect", !.n = @ + 1,
                              !.rbefore = qr, !.qbefore = qd]
    /\ UNCHANGED <<qd, tvars, rvars, svars, dvars, cvars, gvars, pvars, mvars>>

\* q.top_left = p, q.top_right = p, q.bottom_right = p or q.bottom_left = p,
\* for a point p = {v, v}
QAssignCorner(c, p) ==
    /\ qcall.op \in {"quad", "mutate_rect"}
    /\ qd' = [qd EXCEPT ![c] = p]
    /\ qcall' = [qcall EXCEPT !.op = "assign_corner", !.corner = c,
                              !.rbefore = qr, !.qbefore = qd]
    /\ UNCHANGED <<qr, tvars, rvars, svars, dvars, cvars, gvars, pvars, mvars>>

QNext ==
    \/ qcall.op = "none" /\ \E r \in Rects : QConstruct(r)
    \/ qcall.n < MaxMutations /\
           \E m \in {"x", "y", "width", "height"}, v \in Origins : QMutateRect(m, v)
    \/ qcall.op \in {"quad", "mutate_rect"} /\
           \E c \in Corners, v \in Coords : QAssignCorner(c, point(v, v))

---------------------------------------------------------------------------
(* Merging a collection of rects into an accumulator: acc.merge(r) for     *)
(* each r of the collection, in any order, and possibly once more for a    *)
(* rect that was merged already.                                           *)

MaxMerged == 2

\* rects of negative and of positive size at the corners of the origins
MRects ==
    {rect(x, y, s.width, s.height) :
        x \in {0, MaxOrigin}, y \in {0, MaxOrigin},
        s \in {size(0 - 1, 0 - 1), size(MaxDim, MaxOrigin)}}

Collections == {S \in SUBSET MRects : Cardinality(S) <= MaxMerged}

NoMerge ==
    [op |-> "none", acc0 |-> ZeroRect, all |-> {}, todo |-> {}, acc |-> ZeroRect,
     before |-> ZeroRect, last |-> ZeroRect, again |-> FALSE]

\* rect<int> acc = {x, y, w, h}, and the rects to merge into it
MStart(a, S) ==
    /\ mg.op = "none"
    /\ mg' = [NoMerge EXCEPT !.op = "start", !.acc0 = a, !.all = S, !.todo = S, !.acc = a]
    /\ UNCHANGED <<tvars, rvars, svars, dvars, cvars, gvars, pvars, qvars>>

\* acc.merge(r) for a rect r not merged so far
MMerge(r) ==
    /\ r \in mg.todo
    /\ mg' = [mg EXCEPT !.op = "merge", !.acc = merge(mg.acc, r), !.todo = @ \ {r},
                        !.before = mg.acc, !.last = r]
    /\ UNCHANGED <<tvars, rvars, svars, dvars, cvars, gvars, pvars, qvars>>

\* acc.merge(r) for a rect r merged before
MMergeAgain(r) ==
    /\ r \in mg.all \ mg.todo
    /\ ~mg.again
    /\ mg' = [mg EXCEPT !.op = "merge", !.acc = merge(mg.acc, r), !.again = TRUE,
                        !.before = mg.acc, !.last = r]
    /\ UNCHANGED <<tvars, rvars, svars, dvars, cvars, gvars, pvars, qvars>>

MNext ==
    \/ mg.op = "none" /\ \E a \in MRects, S \in Collections : MStart(a, S)
    \/ \E r \in MRects : MMerge(r)
    \/ \E r \in MRects : MMergeAgain(r)

---------------------------------------------------------------------------
(* Specifications: one per value type under test.                          *)

Init ==
    /\ tf = identity
    /\ tcall = [NoTCall EXCEPT !.op = "identity"]
    /\ rc = ZeroRect
    /\ rcall = [NoRCall EXCEPT !.op = "rect"]
    /\ store = ZeroStore
    /\ scall = [op |-> "rect", m |-> "origin", a |-> 0, b |-> 0]
    /\ ft = TypeOf("none", "int", FALSE, view("xy"))
    /\ ck = [target |-> "none", T |-> "int", ctors |-> {}]
    /\ cv = [op |-> "none", conv |-> "xywh", scalar |-> "int",
             f |-> <<0, 0, 0, 0>>, r |-> ZeroRect, g |-> <<0, 0, 0, 0>>]
    /\ rg = range(0, 0)
    /\ gcall = NoGCall
    /\ pcall = NoPCall
    /\ qr = ZeroRect
    /\ qd = ZeroQuad
    /\ qcall = NoQCall
    /\ mg = NoMerge

SpecTransform == Init /\ [][TNext]_vars

SpecRect == Init /\ [][RNext]_vars

SpecStore == Init /\ [][SNext]_vars

SpecDetect == Init /\ [][DNext]_vars

SpecConvert == Init /\ [][CNext]_vars

SpecRange == Init /\ [][GNext]_vars

SpecPoint == Init /\ [][PNext]_vars

SpecQuad == Init /\ [][QNext]_vars

SpecMerge == Init /\ [][MNext]_vars

---------------------------------------------------------------------------
(* Properties of transform.                                                *)

MulOps == {"mul", "mul_assign"}
AddOps == {"add", "add_assign", "translated", "with_translation"}
SubOps == {"sub", "sub_assign"}

\* C1: composition law.  After t1 * t2 (or t1 *= t2), applying the product to
\* any point p gives the same point as applying t2 and then t1:
\* (t1 * t2).apply(p) == t1.apply(t2.apply(p)).
C1_CompositionLaw ==
    tcall.op \in MulOps =>
        \A p \in Points :
            point_eq(apply(tcall.tret, p), apply(tcall.self, apply(tcall.targ, p)))

\* C2: rotation(angle, c) rotates about c: the pivot is a fixed point,
\* rotation(angle, c).apply(c) == c, for every quarter-turn angle and pivot c.
C2_PivotIsFixed ==
    tcall.op = "rotation_pivot" => point_eq(apply(tf, tcall.parg), tcall.parg)

\* C3: adding a point to a transform pre-translates the input:
\* (t + p).apply(q) == t.apply(q + p), the same for t += p, t.translated(p)
\* and t.with_translation(p), and t - p, t -= p are the same with -p.
C3_AddPreTranslates ==
    /\ tcall.op \in AddOps =>
          \A q \in Points :
              point_eq(apply(tcall.tret, q), apply(tcall.self, point_add(q, tcall.parg)))
    /\ tcall.op \in SubOps =>
          \A q \in Points :
              point_eq(apply(tcall.tret, q),
                       apply(tcall.self, point_add(q, point_neg(tcall.parg))))
    /\ tcall.op \in {"add_assign", "translated", "sub_assign"} => tf = tcall.tret

\* C4: for transforms built from translation(v) and scale(s) only, the right
\* operand of operator* is applied first:
\* (translation(v) * scale(s)).apply(p) == (p.x*s.width + v.x, p.y*s.height + v.y)
\* (scale(s) * translation(v)).apply(p) == ((p.x + v.x)*s.width, (p.y + v.y)*s.height).
C4_RightOperandFirst ==
    tcall.op \in MulOps =>
        /\ LET v == point(tcall.self.tx, tcall.self.ty)
               s == size(tcall.targ.a, tcall.targ.d)
           IN  (tcall.self = translation(v) /\ tcall.targ = scale(s)) =>
                   \A p \in Points :
                       point_eq(apply(tcall.tret, p),
                                point(p.x * s.width + v.x, p.y * s.height + v.y))
        /\ LET s == size(tcall.self.a, tcall.self.d)
               v == point(tcall.targ.tx, tcall.targ.ty)
           IN  (tcall.self = scale(s) /\ tcall.targ = translation(v)) =>
                   \A p \in Points :
                       point_eq(apply(tcall.tret, p),
                                point((p.x + v.x) * s.width, (p.y + v.y) * s.height))

\* C4 witness: translation((1,1)) * scale((-1,-1)) has been formed; the two
\* orders of application differ on it.
C4_Witness ==
    /\ tcall.op = "mul"
    /\ tcall.self = translation(point(1, 1))
    /\ tcall.targ = scale(size(0 - 1, 0 - 1))
    /\ tcall.tret = transform(0 - 1, 0, 0, 0 - 1, 1, 1)

\* C5: a half-turn rotation about a pivot c reflects every point q through c:
\* rotation(pi, c).apply(q) == (2*c.x - q.x, 2*c.y - q.y); both for the
\* transform the builder returns and for the points apply returns.
C5_HalfTurnReflects ==
    /\ (tcall.op = "rotation_pivot" /\ tcall.angle = 2) =>
          \A q \in Points :
              point_eq(apply(tf, q),
                       point(2 * tcall.parg.x - q.x, 2 * tcall.parg.y - q.y))
    /\ tcall.op \in {"apply", "point_times"} =>
          \A c \in Points :
              tcall.self = rotation_pivot(2, c) =>
                  point_eq(tcall.pret,
                           point(2 * c.x - tcall.parg.x, 2 * c.y - tcall.parg.y))

\* C5 witness: rotation(pi, (1,1)) applied to (0,0), the top-left corner of
\* rect {0,0,1,1} rotated about its bottom-right corner, gave (2,2).
C5_Witness ==
    /\ tcall.op = "point_times"
    /\ tcall.self = rotation_pivot(2, bottom_right(rect(0, 0, 1, 1)))
    /\ tcall.parg = top_left(rect(0, 0, 1, 1))
    /\ tcall.pret = point(2, 2)

\* C6: applying a transform to a rect maps its four corners one by one and in
\* order: t.apply(r) == t.apply(quad(r)) == quad(t.apply(top_left),
\* t.apply(top_right), t.apply(bottom_right), t.apply(bottom_left)), and
\* r * t and quad(r) * t give the same quad.
C6_RectMapsCorners ==
    /\ tcall.op \in {"apply_rect", "rect_times"} =>
          /\ quad_eq(tcall.qret, apply_quad(tcall.self, quad_from_rect(tcall.rarg)))
          /\ quad_eq(tcall.qret,
                     quad(apply(tcall.self, top_left(tcall.rarg)),
                          apply(tcall.self, top_right(tcall.rarg)),
                          apply(tcall.self, bottom_right(tcall.rarg)),
                          apply(tcall.self, bottom_left(tcall.rarg))))
    /\ tcall.op \in {"apply_quad", "quad_times"} =>
          LET q == tcall.qarg
              r == rect(q.top_left.x, q.top_left.y,
                        q.top_right.x - q.top_left.x, q.bottom_left.y - q.top_left.y)
          IN  q = quad_from_rect(r) => quad_eq(tcall.qret, apply_rect(tcall.self, r))

\* C6 witness: a rect with four distinct corners went through r * t for a
\* transform with an off-diagonal coefficient.
C6_Witness ==
    /\ tcall.op = "rect_times"
    /\ tcall.rarg.width > 0
    /\ tcall.rarg.height > 0
    /\ tcall.self.b # 0
    /\ tcall.qret.bottom_left # tcall.qret.bottom_right

---------------------------------------------------------------------------
(* Properties of rect.                                                     *)

NonNegative(r) == r.width >= 0 /\ r.height >= 0

\* a gap separates the two rects on some axis
Separated(r, o) ==
    \/ right(r) < left(o)
    \/ right(o) < left(r)
    \/ bottom(r) < top(o)
    \/ bottom(o) < top(r)

\* C7 as stated: for rects a, b with non-negative width and height and
\* a.intersects(b) false, a.intersection(b) is the zero rect {0,0,0,0}.
C7_DisjointGivesZeroRect ==
    (/\ rcall.op = "intersection"
     /\ NonNegative(rcall.self)
     /\ NonNegative(rcall.rarg)
     /\ ~intersects(rcall.self, rcall.rarg)) => rect_eq(rcall.rret, ZeroRect)

\* C7 amended: for rects a, b with non-negative width and height and
\* a.intersects(b) false, a.intersection(b) is the zero rect {0,0,0,0} when a
\* gap separates a and b on some axis; when they only touch it is the
\* zero-area rect at (max(a.x, b.x), max(a.y, b.y)) whose width or height is 0.
C7_DisjointGivesZeroArea ==
    (/\ rcall.op = "intersection"
     /\ NonNegative(rcall.self)
     /\ NonNegative(rcall.rarg)
     /\ ~intersects(rcall.self, rcall.rarg)) =>
        IF Separated(rcall.self, rcall.rarg)
        THEN rect_eq(rcall.rret, ZeroRect)
        ELSE /\ rcall.rret.x = Max(rcall.self.x, rcall.rarg.x)
             /\ rcall.rret.y = Max(rcall.self.y, rcall.rarg.y)
             /\ rcall.rret.width >= 0
             /\ rcall.rret.height >= 0
             /\ rcall.rret.width = 0 \/ rcall.rret.height = 0

\* C7 witness: {0,0,1,1}.intersection({1,0,1,1}): the rects share an edge only
\* and the result is {1,0,0,1}.
C7_Witness ==
    /\ rcall.op = "intersection"
    /\ rcall.self = rect(0, 0, 1, 1)
    /\ rcall.rarg = rect(1, 0, 1, 1)
    /\ ~intersects(rcall.self, rcall.rarg)
    /\ rcall.rret = rect(1, 0, 0, 1)

\* C8: intersects(rect) excludes touching edges: a.intersects(b) iff the
\* overlap is strictly positive on both axes (each far edge lies strictly
\* beyond each near edge); rects sharing only an edge or a corner do not
\* intersect; the relation is symmetric.
C8_IntersectsExclusive ==
    rcall.op = "intersects" =>
        LET a == rcall.self
            b == rcall.rarg
        IN  /\ rcall.bret <=>
                  /\ right(a) > left(a) /\ right(a) > left(b)
                  /\ right(b) > left(a) /\ right(b) > left(b)
                  /\ bottom(a) > top(a) /\ bottom(a) > top(b)
                  /\ bottom(b) > top(a) /\ bottom(b) > top(b)
            /\ rcall.bret <=> intersects(b, a)
            /\ (\/ right(a) = left(b) \/ right(b) = left(a)
                \/ bottom(a) = top(b) \/ bottom(b) = top(a)) => ~rcall.bret

\* C8 witness: two rects of positive area share an edge and intersects
\* returned false.
C8_Witness ==
    /\ rcall.op = "intersects"
    /\ rcall.self = rect(0, 0, 1, 1)
    /\ rcall.rarg = rect(1, 0, 1, 1)
    /\ rcall.bret = FALSE

\* C9: a rect with non-negative width and height contains its top-left and
\* its bottom-right corner (contains is closed on the right and bottom edge).
C9_ContainsCorners ==
    (/\ rcall.op = "contains"
     /\ NonNegative(rcall.self)
     /\ rcall.parg \in {top_left(rcall.self), bottom_right(rcall.self)}) =>
        rcall.bret = TRUE

\* C9 witness: contains was asked about the bottom-right corner of a rect of
\* positive area.
C9_Witness ==
    /\ rcall.op = "contains"
    /\ rcall.self.width > 0
    /\ rcall.self.height > 0
    /\ rcall.parg = bottom_right(rcall.self)
    /\ rcall.bret = TRUE

\* C10: get_union, merged and merge give the bounding box of both rects: for
\* a, b of non-negative size the result u has left = min of the lefts, top =
\* min of the tops, right = max of the rights, bottom = max of the bottoms, so
\* u contains every corner of a and b; merged returns the rect get_union
\* returns and merge leaves the object equal to it.
C10_UnionIsBoundingBox ==
    (/\ rcall.op \in {"get_union", "merged", "merge"}
     /\ NonNegative(rcall.self)
     /\ NonNegative(rcall.rarg)) =>
        LET a == rcall.self
            b == rcall.rarg
            u == rcall.rret
        IN  /\ left(u) = Min(left(a), left(b))
            /\ top(u) = Min(top(a), top(b))
            /\ right(u) = Max(right(a), right(b))
            /\ bottom(u) = Max(bottom(a), bottom(b))
            /\ \A r \in {a, b} :
                  /\ contains(u, top_left(r))
                  /\ contains(u, top_right(r))
                  /\ contains(u, bottom_left(r))
                  /\ contains(u, bottom_right(r))
            /\ rect_eq(u, get_union(a, b))
            /\ rcall.op = "merge" => rect_eq(rc, u)

\* C10 witness: merge of two rects neither of which contains the other; the
\* object now holds a box larger than both.
C10_Witness ==
    /\ rcall.op = "merge"
    /\ rcall.self = rect(0, 0, 1, 2)
    /\ rcall.rarg = rect(1, 1, 2, 0)
    /\ rc = rect(0, 0, 3, 2)

\* C11: self-merge is the identity: r.merged(r) == r for every rect r, of
\* any sign of width and height.
C11_SelfMergeIdentity ==
    (rcall.op = "merged" /\ rcall.rarg = rcall.self) => rect_eq(rcall.rret, rcall.self)

\* C11 witness: a rect of negative width and height was merged with itself.
C11_Witness ==
    /\ rcall.op = "merged"
    /\ rcall.rarg = rcall.self
    /\ rcall.self.width < 0
    /\ rcall.self.height < 0
    /\ rcall.rret = rcall.self

\* C12: reduced and expanded are inverse over integers:
\* r.reduced(p).expanded(p) == r and r.expanded(p).reduced(p) == r; each moves
\* x by p.x and y by p.y and changes width by 2*p.x and height by 2*p.y; the
\* in-place reduce / expand leave the rect that reduced / expanded return.
C12_ReduceExpandInverse ==
    LET r == rcall.self
        p == rcall.parg
    IN  /\ rcall.op \in {"reduced", "reduce"} =>
              /\ rcall.rret = rect(r.x + p.x, r.y + p.y, r.width - 2 * p.x, r.height - 2 * p.y)
              /\ rect_eq(expanded(rcall.rret, p), r)
              /\ rect_eq(rcall.rret, reduced(r, p))
        /\ rcall.op \in {"expanded", "expand"} =>
              /\ rcall.rret = rect(r.x - p.x, r.y - p.y, r.width + 2 * p.x, r.height + 2 * p.y)
              /\ rect_eq(reduced(rcall.rret, p), r)
              /\ rect_eq(rcall.rret, expanded(r, p))
        /\ rcall.op \in {"reduce", "expand"} => rect_eq(rc, rcall.rret)

\* C12 witness: a rect was reduced in place by a point with non-zero x and y.
C12_Witness ==
    /\ rcall.op = "reduce"
    /\ rcall.parg.x # 0
    /\ rcall.parg.y # 0
    /\ rc # rcall.self
    /\ expanded(rc, rcall.parg) = rcall.self

\* C13: each corner factory stores the rect so that the named corner is the
\* input point and the size is the input size:
\* create_from_top_left(p,s).top_left() == p, create_from_top_right(p,s).top_right() == p,
\* create_from_bottom_left(p,s).bottom_left() == p,
\* create_from_bottom_right(p,s).bottom_right() == p.
C13_FactoryCorner ==
    LET p == rcall.parg
        s == rcall.sarg
        sized == rcall.rret.width = s.width /\ rcall.rret.height = s.height /\ rc = rcall.rret
    IN  /\ rcall.op = "create_from_top_left" => top_left(rcall.rret) = p /\ sized
        /\ rcall.op = "create_from_top_right" => top_right(rcall.rret) = p /\ sized
        /\ rcall.op = "create_from_bottom_left" => bottom_left(rcall.rret) = p /\ sized
        /\ rcall.op = "create_from_bottom_right" => bottom_right(rcall.rret) = p /\ sized

\* C13 witness: create_from_bottom_left with a non-zero height; the stored
\* origin lies above the input point.
C13_Witness ==
    /\ rcall.op = "create_from_bottom_left"
    /\ rcall.sarg.height > 0
    /\ rc.y = rcall.parg.y - rcall.sarg.height
    /\ bottom_left(rc) = rcall.parg

Even(n) == n % 2 = 0

\* C14: for a rect of even width and height each middle accessor returns the
\* midpoint of the rect or of the named edge: middle() == (x + width/2,
\* y + height/2), middle_left() == (x, y + height/2), middle_right() ==
\* (x + width, y + height/2), middle_top() == (x + width/2, y),
\* middle_bottom() == (x + width/2, y + height).
C14_MiddleAccessors ==
    LET r == rcall.self
        hw == r.width \div 2
        hh == r.height \div 2
    IN  (Even(r.width) /\ Even(r.height)) =>
            /\ rcall.op = "middle" => rcall.pret = point(r.x + hw, r.y + hh)
            /\ rcall.op = "middle_left" => rcall.pret = point(r.x, r.y + hh)
            /\ rcall.op = "middle_right" => rcall.pret = point(r.x + r.width, r.y + hh)
            /\ rcall.op = "middle_top" => rcall.pret = point(r.x + hw, r.y)
            /\ rcall.op = "middle_bottom" => rcall.pret = point(r.x + hw, r.y + r.height)

---------------------------------------------------------------------------
(* Properties of the storage of rect.                                      *)

\* C15: after any sequence of rect mutators, origin and position read the
\* same point as (x, y) and size reads the same size as (width, height);
\* and what a setter wrote through one view is read through the other view:
\* set_x, set_y, set_width, set_height through origin and size, set_position
\* and set_size through x, y, width and height.
C15_FieldAliasing ==
    /\ ReadPoint(store, "origin") = ReadPoint(store, "position")
    /\ ReadPoint(store, "origin") = point(ReadScalar(store, "x"), ReadScalar(store, "y"))
    /\ ReadSize(store, "size") =
           size(ReadScalar(store, "width"), ReadScalar(store, "height"))
    /\ (scall.op = "set" /\ scall.m = "x") => ReadPoint(store, "origin").x = scall.a
    /\ (scall.op = "set" /\ scall.m = "y") => ReadPoint(store, "position").y = scall.a
    /\ (scall.op = "set" /\ scall.m = "width") => ReadSize(store, "size").width = scall.a
    /\ (scall.op = "set" /\ scall.m = "height") => ReadSize(store, "size").height = scall.a
    /\ scall.op = "set_position" =>
           /\ ReadScalar(store, "x") = scall.a
           /\ ReadScalar(store, "y") = scall.b
    /\ scall.op = "set_size" =>
           /\ ReadScalar(store, "width") = scall.a
           /\ ReadScalar(store, "height") = scall.b

\* A rect that set_size and then set_x wrote: every slot has been written
\* through one view and is read through the other.
C15_Witness ==
    /\ scall.op = "set"
    /\ scall.m = "x"
    /\ scall.a = 1
    /\ ReadPoint(store, "origin") = point(1, 0 - 1)
    /\ ReadScalar(store, "width") = 1
    /\ ReadScalar(store, "height") = 0 - 1

---------------------------------------------------------------------------
(* Properties of the structural detection.                                 *)

\* The members named by seq sit at offsets 0, s, 2s, ... in that order.
InOrder(F, seq) ==
    \A i \in DOMAIN seq :
        /\ seq[i] \in DOMAIN F.members
        /\ offsetof(F, seq[i]) = (i - 1) * sizeof(F.scalar)

\* origin = {x, y} at offset 0 and size = {width, height} at offset 2s.
OsInOrder(F) ==
    /\ has_members(F, names.os)
    /\ offsetof(F, "origin") = 0
    /\ offsetof(F, "size") = 2 * sizeof(F.scalar)
    /\ F.originFields = [x |-> 0, y |-> 1]
    /\ F.sizeFields = [width |-> 0, height |-> 1]

ConventionInOrder(F, c) == IF c = names.os THEN OsInOrder(F) ELSE InOrder(F, c)

ConventionsOf(target) ==
    IF target = "rect" THEN {names.os, names.xywh, names.XYWH, names.ltrb}
    ELSE IF target = "point" THEN {names.xy, names.XY}
    ELSE IF target = "size" THEN {names.wh, names.WH}
    ELSE {}

\* A plain struct: one member list, no union.
Plain(F) == F.kind = "struct" /\ ~F.overlaid

\* C16: rect<T>, point<T> and size<T> are constructible from a type only if
\* the members of one of the target's conventions sit at offsets 0, s, 2s,
\* (3s) in the order of the convention; a plain struct that declares exactly
\* the members of one of the target's conventions is accepted when it
\* declares them in the order of the convention and rejected in any other
\* order, whatever the scalar type T of the target.
C16_LayoutSensitiveDetection ==
    ck.target /= "none" =>
        /\ is_constructible(ck.ctors) =>
               \E c \in ConventionsOf(ck.target) : ConventionInOrder(ft, c)
        /\ \A c \in ConventionsOf(ck.target) :
               (Plain(ft) /\ DOMAIN ft.members = Range(c)) =>
                   (is_constructible(ck.ctors) <=> ConventionInOrder(ft, c))

\* struct { int left, top, right, bottom; } is accepted by rect<float>.
C16_Witness ==
    /\ ck.target = "rect"
    /\ ck.T = "float"
    /\ Plain(ft)
    /\ ft.scalar = "int"
    /\ ft.members = [left |-> 0, top |-> 1, right |-> 2, bottom |-> 3]
    /\ is_constructible(ck.ctors)

\* C17: a type that rect accepts through one of its structural constructors
\* is accepted by neither point nor size: whenever point<T> or size<T> is
\* constructible from a type, no rect<U> is.
C17_RectTypesAreNeitherPointsNorSizes ==
    (ck.target \in {"point", "size"} /\ is_constructible(ck.ctors)) =>
        \A U \in Scalars : ~is_constructible(rect_ctors(U, ft))

\* C18: a type that has origin, size and x, y, width, height, all in the
\* layout of their convention, enables the origin/size constructor of rect
\* and no other constructor template, and rect<T> is constructible from it;
\* so rect<T> is constructible from nano::rect<U> for all scalars T and U.
C18_OriginSizeHasPriority ==
    ck.target = "rect" =>
        /\ (OsInOrder(ft) /\ InOrder(ft, names.xywh)) =>
               /\ ck.ctors \ {"copy"} = {"os"}
               /\ is_constructible(ck.ctors)
        /\ ft.kind = "nano::rect" => is_constructible(ck.ctors)

\* rect<float> is constructed from nano::rect<unsigned int>.
C18_Witness ==
    /\ ck.target = "rect"
    /\ ck.T = "float"
    /\ ft = nano_rect("unsigned int")
    /\ ck.ctors = {"os"}

\* C26: a type that has the four members x, y, width, height (or X, Y, Width,
\* Height) is accepted by neither point nor size, in whatever order it
\* declares them.
C26_FourFieldTypesAreNeitherPointsNorSizes ==
    (/\ ck.target \in {"point", "size"}
     /\ has_members(ft, names.xywh) \/ has_members(ft, names.XYWH)) =>
        ~is_constructible(ck.ctors)

---------------------------------------------------------------------------
(* Properties of the conversions.                                          *)

\* C19: the rect constructed from a foreign {x, y, width, height} value f of
\* the rect's scalar type has f's fields as its x, y, width and height, and
\* convert<F>() of that rect gives f back, field for field.
C19_XywhRoundTrip ==
    (cv.conv = "xywh" /\ cv.op /= "none") =>
        /\ cv.r.x = cv.f[1]
        /\ cv.r.y = cv.f[2]
        /\ cv.r.width = cv.f[3]
        /\ cv.r.height = cv.f[4]
        /\ cv.op = "convert" => cv.g = cv.f

\* struct { int x, y, width, height; }{1, -2, -1, 1} went to rect<int> and back.
C19_Witness ==
    /\ cv.conv = "xywh"
    /\ cv.op = "convert"
    /\ cv.scalar = "int"
    /\ cv.f = <<1, 0 - 2, 0 - 1, 1>>
    /\ cv.g = cv.f

\* The differences and sums of the round trip of f are values of the type U.
Representable(U, f) ==
    /\ f[3] - f[1] \in IntValues(U)
    /\ f[4] - f[2] \in IntValues(U)

\* C20 as stated: for every foreign {left, top, right, bottom} value f of an
\* integer type, the rect has x = left, y = top, width = right - left and
\* height = bottom - top in the arithmetic of the type, and converting back
\* gives f.
C20_LtrbRoundTrip ==
    (cv.conv = "ltrb" /\ cv.op /= "none") =>
        /\ cv.r.x = cv.f[1]
        /\ cv.r.y = cv.f[2]
        /\ (cv.r.width - (cv.f[3] - cv.f[1])) % (2 ^ IntBits) = 0
        /\ (cv.r.height - (cv.f[4] - cv.f[2])) % (2 ^ IntBits) = 0
        /\ cv.op = "convert" => cv.g = cv.f

\* C20 amended: the same holds for every f of an unsigned type, where the
\* arithmetic wraps, and for every f of a signed type whose differences
\* right - left and bottom - top are values of the type; left > right and
\* top > bottom are included in both cases.
C20_LtrbRoundTripWithoutOverflow ==
    (cv.conv = "ltrb" /\ cv.op /= "none"
        /\ (cv.scalar = "unsigned int" \/ Representable(cv.scalar, cv.f))) =>
        /\ cv.r.x = cv.f[1]
        /\ cv.r.y = cv.f[2]
        /\ cv.r.width \in Arith(cv.scalar, cv.f[3] - cv.f[1])
        /\ cv.r.height \in Arith(cv.scalar, cv.f[4] - cv.f[2])
        /\ cv.op = "convert" =>
               /\ cv.g[3] \in Arith(cv.scalar, cv.r.x + cv.r.width)
               /\ cv.g[4] \in Arith(cv.scalar, cv.r.y + cv.r.height)
               /\ cv.g = cv.f

\* struct { unsigned left, top, right, bottom; }{3, 1, 1, 0}, with left > right
\* and top > bottom, went to rect<unsigned> and back.
C20_Witness ==
    /\ cv.conv = "ltrb"
    /\ cv.op = "convert"
    /\ cv.scalar = "unsigned int"
    /\ cv.f = <<3, 1, 1, 0>>
    /\ cv.r = rect(3, 1, 2, 3)
    /\ cv.g = cv.f

---------------------------------------------------------------------------
(* Further properties of transform and rect.                               *)

\* C27: t * s multiplies a and c by s.width, b and d by s.height and keeps tx
\* and ty; it is the same transform as t * transform::scale(s), and t *= s
\* and t.scaled(s) leave t equal to it.
C27_SizeScalesLinearPart ==
    /\ tcall.op \in {"mul_size", "mul_size_assign", "scaled"} =>
          LET t == tcall.self
              s == tcall.sarg
          IN  /\ tcall.tret = transform(t.a * s.width, t.b * s.height,
                                        t.c * s.width, t.d * s.height, t.tx, t.ty)
              /\ tcall.tret = transform_mul(t, scale(s))
              /\ tcall.op = "mul_size" => tf = t
              /\ tcall.op \in {"mul_size_assign", "scaled"} => tf = tcall.tret
    /\ tcall.op = "mul" =>
          LET s == size(tcall.targ.a, tcall.targ.d)
          IN  tcall.targ = scale(s) => tcall.tret = transform_mul_size(tcall.self, s)

\* C27 witness: a rotation about a pivot (b, c, tx, ty all nonzero) has been
\* scaled in place by a size with two different nonzero factors.
C27_Witness ==
    /\ tcall.op = "scaled"
    /\ tcall.self.b # 0 /\ tcall.self.c # 0
    /\ tcall.self.tx # 0 /\ tcall.self.ty # 0
    /\ tcall.sarg.width # 0 /\ tcall.sarg.height # 0
    /\ tcall.sarg.width # tcall.sarg.height
    /\ tf = tcall.tret
    /\ tf # tcall.self

\* C28: for rect<int>, intersects(p) is true exactly when contains(p) is,
\* that is when left() <= p.x <= right() and top() <= p.y <= bottom(), for
\* every rect, of negative width or height too, and every point.
C28_IntersectsPointIsContains ==
    rcall.op = "intersects_point" =>
        LET r == rcall.self
            p == rcall.parg
        IN  /\ rcall.bret <=> contains(r, p)
            /\ rcall.bret <=> (/\ left(r) <= p.x /\ p.x <= right(r)
                               /\ top(r) <= p.y /\ p.y <= bottom(r))

\* C28 witness: the bottom right corner of a rect of positive size intersects it.
C28_Witness ==
    /\ rcall.op = "intersects_point"
    /\ rcall.self.width > 0 /\ rcall.self.height > 0
    /\ rcall.parg = bottom_right(rcall.self)
    /\ rcall.bret

\* C29: for rects of any sign of width and height, a.intersects(b) holds
\* exactly when a.intersection(b) has width > 0 and height > 0; the
\* intersection never has a negative width or height; and a.intersection(b)
\* equals b.intersection(a).
C29_IntersectionAgreesWithIntersects ==
    /\ rcall.op = "intersection" =>
          LET a == rcall.self
              b == rcall.rarg
          IN  /\ intersects(a, b) <=> (rcall.rret.width > 0 /\ rcall.rret.height > 0)
              /\ rcall.rret.width >= 0
              /\ rcall.rret.height >= 0
              /\ rect_eq(rcall.rret, intersection(b, a))
    /\ rcall.op = "intersects" =>
          LET i == intersection(rcall.self, rcall.rarg)
          IN  rcall.bret <=> (i.width > 0 /\ i.height > 0)

\* C29 witness: a rect of negative width was intersected with a rect of
\* positive size that covers its origin; the result is the zero rect.
C29_Witness ==
    /\ rcall.op = "intersection"
    /\ rcall.self.width < 0 /\ rcall.self.height > 0
    /\ rcall.rarg.width > 0 /\ rcall.rarg.height > 0
    /\ contains(rcall.rarg, origin(rcall.self))
    /\ ~intersects(rcall.self, rcall.rarg)
    /\ rcall.rret = ZeroRect

---------------------------------------------------------------------------
(* Properties of range.                                                    *)

\* C21: on a sorted range, clipped_value(x) lies between start and end, is x
\* itself exactly when the range contains x, and clipping the result again
\* gives the same value.
C21_ClippedValueInRange ==
    (gcall.op = "clipped_value" /\ is_sorted(gcall.self)) =>
        /\ gcall.self.start <= gcall.vret
        /\ gcall.vret <= gcall.self.end
        /\ (gcall.vret = gcall.x) <=> range_contains(gcall.self, gcall.x)
        /\ clipped_value(gcall.self, gcall.vret) = gcall.vret

C21_Witness ==
    /\ gcall.op = "clipped_value"
    /\ gcall.self.start < gcall.self.end
    /\ gcall.x > gcall.self.end
    /\ gcall.vret = gcall.self.end

\* C22: sort() swaps start and end only when the range is unsorted; after it
\* the range is sorted and holds the same two values, a sorted range is left
\* as it was, and sorting again changes nothing.
C22_SortSwapsWhenUnsorted ==
    gcall.op = "sort" =>
        /\ is_sorted(rg)
        /\ {rg.start, rg.end} = {gcall.self.start, gcall.self.end}
        /\ is_sorted(gcall.self) => rg = gcall.self
        /\ ~is_sorted(gcall.self) => rg = range(gcall.self.end, gcall.self.start)
        /\ sort(rg) = rg

C22_Witness ==
    /\ gcall.op = "sort"
    /\ gcall.n = MaxSorts
    /\ gcall.self.start > gcall.self.end
    /\ rg = range(gcall.self.end, gcall.self.start)

\* C23: the order of integer ranges is lexicographic on (start, length()):
\* exactly one of a < b, a == b, a > b holds, a <= b is (a < b or a == b),
\* and a >= b is not (a < b).
C23_LexicographicOrder ==
    gcall.op = "compare" =>
        LET a == gcall.self
            b == gcall.rarg
        IN  /\ gcall.lt <=> (a.start < b.start \/ (a.start = b.start /\ length(a) < length(b)))
            /\ Cardinality({c \in {"lt", "eq", "gt"} : gcall[c]}) = 1
            /\ gcall.le <=> (gcall.lt \/ gcall.eq)
            /\ gcall.ge <=> ~gcall.lt

C23_Witness ==
    /\ gcall.op = "compare"
    /\ gcall.self.start = gcall.rarg.start
    /\ length(gcall.self) < length(gcall.rarg)
    /\ gcall.lt /\ gcall.le /\ ~gcall.gt /\ ~gcall.ge /\ ~gcall.eq

---------------------------------------------------------------------------
(* Properties of point.                                                    *)

\* C24: the relational operators of point compare both components: p < q
\* iff p.x < q.x and p.y < q.y, likewise <=, > and >=; < is irreflexive and
\* transitive.  It is not total: the witness is a pair p # q with neither
\* p < q nor q < p, where p <= q holds without p < q or p == q.
C24_ComponentWiseOrder ==
    pcall.op = "compare" =>
        LET p == pcall.p
            q == pcall.q
        IN  /\ pcall.lt <=> (p.x < q.x /\ p.y < q.y)
            /\ pcall.le <=> (p.x <= q.x /\ p.y <= q.y)
            /\ pcall.gt <=> (p.x > q.x /\ p.y > q.y)
            /\ pcall.ge <=> (p.x >= q.x /\ p.y >= q.y)
            /\ ~pcall.lt_pp
            /\ (pcall.lt /\ pcall.lt_qr) => pcall.lt_pr

C24_Witness ==
    /\ pcall.op = "compare"
    /\ ~pcall.eq
    /\ ~pcall.lt
    /\ ~point_lt(pcall.q, pcall.p)
    /\ pcall.le
    /\ pcall.lt_qr

---------------------------------------------------------------------------
(* Properties of quad.                                                     *)

\* C25: a quad built from a rect holds the four corners of the rect as it was
\* then; assigning to fields of the rect afterwards leaves the quad as built,
\* and assigning to one corner of the quad leaves its other three corners and
\* the rect as they were.
C25_QuadIsSnapshot ==
    /\ qcall.op = "quad" =>
          /\ qd.top_left = top_left(qr)
          /\ qd.top_right = top_right(qr)
          /\ qd.bottom_right = bottom_right(qr)
          /\ qd.bottom_left = bottom_left(qr)
    /\ qcall.op = "mutate_rect" =>
          /\ qd.top_left = top_left(qcall.r0)
          /\ qd.top_right = top_right(qcall.r0)
          /\ qd.bottom_right = bottom_right(qcall.r0)
          /\ qd.bottom_left = bottom_left(qcall.r0)
    /\ qcall.op = "assign_corner" =>
          /\ \A c \in Corners \ {qcall.corner} : qd[c] = qcall.qbefore[c]
          /\ qr = qcall.rbefore

C25_Witness ==
    /\ qcall.op = "assign_corner"
    /\ qcall.n = MaxMutations
    /\ qr.x # qcall.r0.x /\ qr.width # qcall.r0.width
    /\ qd[qcall.corner] # qcall.q0[qcall.corner]
    /\ \A c \in Corners \ {qcall.corner} : qd[c] = qcall.q0[c] /\ qd[c] # quad_from_rect(qr)[c]

---------------------------------------------------------------------------
(* Properties of merging.                                                  *)

\* The rects of S merged into acc one after the other, in one fixed order.
RECURSIVE MergeAll(_, _)
MergeAll(acc, S) ==
    IF S = {} THEN acc
    ELSE LET r == CHOOSE r \in S : TRUE
         IN  MergeAll(merge(acc, r), S \ {r})

\* C30: the accumulator does not depend on the order of the merges: after
\* any sequence of acc.merge(r) it is the value one fixed order gives for the
\* rects merged so far, also when a rect was merged twice (idempotent);
\* acc.merge(r) gives what r.merge(acc) gives (commutative); and merging the
\* whole collection into one of its rects first and the result into acc
\* gives the same value (associative).
C30_MergeOrderIndependent ==
    mg.op \in {"start", "merge"} =>
        /\ mg.acc = MergeAll(mg.acc0, mg.all \ mg.todo)
        /\ mg.op = "merge" => mg.acc = merge(mg.last, mg.before)
        /\ mg.todo = {} =>
              \A r \in mg.all : mg.acc = merge(mg.acc0, MergeAll(r, mg.all \ {r}))

\* C30 witness: a rect of negative size and a rect of positive size were
\* merged into an accumulator, one of them twice, and each merge changed it.
C30_Witness ==
    /\ mg.op = "merge"
    /\ mg.todo = {}
    /\ mg.again
    /\ Cardinality(mg.all) = MaxMerged
    /\ \E r \in mg.all : r.width < 0 /\ r.height < 0
    /\ \E r \in mg.all : r.width > 0 /\ r.height > 0
    /\ \A r \in mg.all : merge(mg.acc0, r) # mg.acc0 /\ merge(mg.acc0, r) # mg.acc

====
